---- MODULE Spec2Model ----
(***************************************************************************)
(* A model of paper-millennialifier: the heading classifier and the PDF   *)
(* text structurer of parsers/pdf.py, the HTML structurer of              *)
(* parsers/html.py, the Paper/Section document model of models.py, the    *)
(* source resolver of parsers/fetcher.py, the provider registry, the      *)
(* translation loop of translator.py, and the translate command and       *)
(* endpoint of cli.py and web.py.                                          *)
(*                                                                         *)
(* A Python str is a sequence of one-character strings, so that strip,    *)
(* lower, title, split, join and the regular expressions are computed     *)
(* character by character, as the interpreter computes them.              *)
(***************************************************************************)
EXTENDS Integers, Sequences, FiniteSets, TLC

VARIABLES
    hline,           \* the argument of _is_heading / _clean_heading
    heading_res,     \* None, or <<b>>: the value _is_heading(hline) returned
    clean_res,       \* None, or <<s>>: the value _clean_heading(hline) returned
    text,            \* the argument of PdfParser._structure_text
    lines,           \* text.split("\n")
    li,              \* index in lines of the next line of the scan loop
    title,
    abstract,
    sections,
    current_heading, \* None, or <<heading>>
    current_lines,
    in_body,
    synthesized,     \* whether line 127 appended the "Full Paper" section
    paper,           \* the Paper _structure_text returned
    parts,           \* None, or <<list>>: the value paper.all_sections() returned
    pc,              \* the position in the function that is running
    t_args,          \* the arguments of translate_paper
    t_paper,         \* the Paper object translate_paper works on
    all_secs,        \* the local all_sections of translate_paper
    ti,              \* the index i of its loop
    events,          \* the callbacks fired and the LLM calls issued, in order
    in_flight,       \* the number of LLM calls issued and not yet returned
    results,         \* the values the LLM calls returned, in order
    environ,         \* os.environ
    factories,       \* the provider factories get_provider invoked
    llm,             \* None, or <<name>>: the provider get_provider returned
    f_args,          \* the arguments of fetch_paper
    fs,              \* the paths that exist in the file system
    requests,        \* the URLs of the GET requests issued, in order
    responses,       \* what came back for each of them, in order
    parser_calls,    \* the parser methods called, in order
    f_paper,         \* None, or <<paper>>: the Paper fetch_paper returned
    e_args,          \* the arguments of the translate command / endpoint
    tone_level,      \* None, or <<t>>: the local tone_level
    net_calls,       \* the document fetches and LLM calls attempted, in order
    e_n,             \* len(paper.all_sections()) of the parsed paper
    e_i,             \* the index of the section to translate next
    sse,             \* the server-sent events the endpoint has yielded
    html,            \* the document given to HtmlParser.parse_string, parsed
    soup,            \* the tree as the extraction steps have left it
    h_title,         \* the locals title, authors, abstract of parse_string
    h_authors,
    h_abstract,
    ltx_sections,    \* the elements found by find_all(class_="ltx_section")
    h_i,             \* the index of the next element of the loop that runs
    h_sections,      \* the local sections
    h_heading,       \* current_heading of _parse_generic_sections
    h_parts,         \* current_parts of _parse_generic_sections
    h_paper,         \* None, or <<paper>>: the Paper parse_string returned
    doc_paper,       \* the Paper the structurers make of the document fetched
    out_lines,       \* the local lines of _run_translation
    result,          \* None, or <<s>>: the markdown _run_translation built
    raised           \* None, or <<e>>: the exception that ended the call

vars == <<hline, heading_res, clean_res, text, lines, li, title, abstract,
          sections, current_heading, current_lines, in_body, synthesized,
          paper, parts, pc, t_args, t_paper, all_secs, ti, events, in_flight,
          results, environ, factories, llm, f_args, fs, requests, responses,
          parser_calls, f_paper, e_args, tone_level, net_calls, e_n, e_i, sse,
          html, soup, h_title, h_authors, h_abstract, ltx_sections, h_i,
          h_sections, h_heading, h_parts, h_paper, doc_paper, out_lines, result,
          raised>>

hvars == <<hline, heading_res, clean_res>>
svars == <<text, lines, li, title, abstract, sections, current_heading,
           current_lines, in_body, synthesized, paper, parts>>
pvars == <<svars, pc>>
tvars == <<t_args, t_paper, all_secs, ti, events, in_flight, results, environ,
           factories, llm>>
fvars == <<f_args, fs, requests, responses, parser_calls, f_paper>>
evars == <<e_args, tone_level, net_calls, e_n, e_i, sse>>
dvars == <<html, soup, h_title, h_authors, h_abstract, ltx_sections, h_i,
           h_sections, h_heading, h_parts, h_paper>>
rvars == <<doc_paper, out_lines, result>>
ovars == <<tvars, fvars, evars, dvars, rvars, raised>>
not_tvars == <<hvars, svars, fvars, evars, dvars, rvars>>
not_fvars == <<hvars, svars, tvars, evars, dvars, rvars>>
not_dvars == <<hvars, svars, tvars, fvars, evars, rvars, raised>>
\* what the translate command and endpoint leave alone, but for os.environ
not_evars == <<hvars, svars, fvars, dvars, rvars, t_args, t_paper, all_secs, ti,
               events, in_flight, results, environ, factories, llm>>

-----------------------------------------------------------------------------
(* Python values *)

\* Python's None, and a present value, for an Optional
None == <<>>
Some(v) == <<v>>

Max(S) == CHOOSE x \in S : \A y \in S : y <= x
Min(S) == CHOOSE x \in S : \A y \in S : x <= y

-----------------------------------------------------------------------------
(* Characters *)

LowerCase == <<"a","b","c","d","e","f","g","h","i","j","k","l","m","n","o","p","q","r","s","t","u","v","w","x","y","z">>
UpperCase == <<"A","B","C","D","E","F","G","H","I","J","K","L","M","N","O","P","Q","R","S","T","U","V","W","X","Y","Z">>
Digits == {"0", "1", "2", "3", "4", "5", "6", "7", "8", "9"}
\* the whitespace of str.strip() and of \s that the inputs use
Whitespace == {" ", "\t", "\n", "\r"}

LowerSet == {LowerCase[i] : i \in DOMAIN LowerCase}
UpperSet == {UpperCase[i] : i \in DOMAIN UpperCase}

IsDigit(c) == c \in Digits
IsSpace(c) == c \in Whitespace
IsLowerC(c) == c \in LowerSet
IsUpperC(c) == c \in UpperSet
IsCased(c) == IsLowerC(c) \/ IsUpperC(c)

ToLowerMap == [c \in UpperSet |-> LowerCase[CHOOSE i \in DOMAIN UpperCase : UpperCase[i] = c]]
ToUpperMap == [c \in LowerSet |-> UpperCase[CHOOSE i \in DOMAIN LowerCase : LowerCase[i] = c]]

lowerC(c) == IF c \in UpperSet THEN ToLowerMap[c] ELSE c
upperC(c) == IF c \in LowerSet THEN ToUpperMap[c] ELSE c

-----------------------------------------------------------------------------
(* str methods *)

\* str.strip(): without leading and trailing whitespace
strip(s) ==
    LET keep == {i \in DOMAIN s : ~IsSpace(s[i])}
    IN  IF keep = {} THEN <<>> ELSE SubSeq(s, Min(keep), Max(keep))

\* str.lower()
lower(s) == [i \in DOMAIN s |-> lowerC(s[i])]

\* str.title(): a cased character is uppercased when the character before it is
\* not cased, lowercased when it is
str_title(s) ==
    [i \in DOMAIN s |->
        IF IsCased(s[i])
        THEN IF i > 1 /\ IsCased(s[i - 1]) THEN lowerC(s[i]) ELSE upperC(s[i])
        ELSE s[i]]

\* text.split("\n")
RECURSIVE split(_)
split(s) ==
    LET nl == {i \in DOMAIN s : s[i] = "\n"}
    IN  IF nl = {} THEN <<s>>
        ELSE <<SubSeq(s, 1, Min(nl) - 1)>> \o split(SubSeq(s, Min(nl) + 1, Len(s)))

\* "\n".join(ls)
RECURSIVE join(_)
join(ls) ==
    IF ls = <<>> THEN <<>>
    ELSE IF Len(ls) = 1 THEN ls[1]
    ELSE ls[1] \o <<"\n">> \o join(Tail(ls))

-----------------------------------------------------------------------------
(* Regular expressions (module re), compiled with re.IGNORECASE.           *)
(* A pattern is a tree; Ends(r, s, P) is the set of positions at which a   *)
(* match of r that starts at a position of P can end, position p being     *)
(* the place before s[p].                                                  *)

Lit(c) == [t |-> "lit", c |-> c]
Chr(c) == [t |-> "chr", c |-> c]            \* a character, without IGNORECASE
OneOf(cs) == [t |-> "in", cs |-> cs]        \* [...]
Digit == [t |-> "digit"]                    \* \d
Space == [t |-> "space"]                    \* \s
NonSpace == [t |-> "nonspace"]              \* \S
AnyChar == [t |-> "any"]                    \* .  (not a line break)
Bol == [t |-> "bol"]                        \* ^
Eol == [t |-> "eol"]                        \* $
Cat(xs) == [t |-> "seq", xs |-> xs]
Alt(xs) == [t |-> "alt", xs |-> xs]         \* a|b
Rep(x, lo, hi) == [t |-> "rep", x |-> x, lo |-> lo, hi |-> hi]   \* x{lo,hi}
Many(x, lo) == [t |-> "many", x |-> x, lo |-> lo]                \* x{lo,}
Opt(x) == Rep(x, 0, 1)                      \* x?
Star(x) == Many(x, 0)                       \* x*
Plus(x) == Many(x, 1)                       \* x+
Str(cs) == Cat([i \in DOMAIN cs |-> Lit(cs[i])])
Exact(cs) == Cat([i \in DOMAIN cs |-> Chr(cs[i])])

RECURSIVE Ends(_, _, _), EndsSeq(_, _, _), EndsRep(_, _, _, _, _), EndsMany(_, _, _, _)
Ends(r, s, P) ==
    CASE r.t = "lit" -> {p + 1 : p \in {q \in P : q <= Len(s) /\ lowerC(s[q]) = lowerC(r.c)}}
      [] r.t = "chr" -> {p + 1 : p \in {q \in P : q <= Len(s) /\ s[q] = r.c}}
      [] r.t = "in" -> {p + 1 : p \in {q \in P : q <= Len(s) /\ s[q] \in r.cs}}
      [] r.t = "digit" -> {p + 1 : p \in {q \in P : q <= Len(s) /\ IsDigit(s[q])}}
      [] r.t = "space" -> {p + 1 : p \in {q \in P : q <= Len(s) /\ IsSpace(s[q])}}
      [] r.t = "nonspace" -> {p + 1 : p \in {q \in P : q <= Len(s) /\ ~IsSpace(s[q])}}
      [] r.t = "any" -> {p + 1 : p \in {q \in P : q <= Len(s) /\ s[q] # "\n"}}
      [] r.t = "bol" -> {p \in P : p = 1}
      [] r.t = "eol" -> {p \in P : p = Len(s) + 1 \/ (p = Len(s) /\ s[p] = "\n")}
      [] r.t = "seq" -> EndsSeq(r.xs, s, P)
      [] r.t = "alt" -> UNION {Ends(r.xs[i], s, P) : i \in DOMAIN r.xs}
      [] r.t = "rep" -> EndsRep(r.x, r.lo, r.hi, s, P)
      [] r.t = "many" -> EndsMany(r.x, r.lo, s, P)

EndsSeq(xs, s, P) ==
    IF xs = <<>> \/ P = {} THEN P
    ELSE EndsSeq(Tail(xs), s, Ends(Head(xs), s, P))

\* between lo and hi repetitions of x
EndsRep(x, lo, hi, s, P) ==
    IF P = {} THEN {}
    ELSE IF lo > 0 THEN EndsRep(x, lo - 1, hi - 1, s, Ends(x, s, P))
    ELSE IF hi = 0 THEN P
    ELSE P \cup EndsRep(x, 0, hi - 1, s, Ends(x, s, P) \ P)

\* lo or more repetitions of x (x matches at least one character)
EndsMany(x, lo, s, P) ==
    IF P = {} THEN {}
    ELSE IF lo > 0 THEN EndsMany(x, lo - 1, s, Ends(x, s, P))
    ELSE P \cup EndsMany(x, 0, s, Ends(x, s, P) \ P)

\* pattern.match(s): a match that starts at the beginning of s
re_match(r, s) == Ends(r, s, {1}) # {}

\* re.sub(r, "", s) for a pattern anchored with ^ whose items are all greedy and
\* none is followed by a mandatory item: the one match is the longest, and it is
\* removed
re_sub_prefix(r, s) ==
    LET ends == Ends(r, s, {1})
    IN  IF ends = {} THEN s ELSE SubSeq(s, Max(ends), Len(s))

\* pattern.search(s).group(1) for a pattern that is a literal followed by one
\* group (x+): the leftmost match, its group as long as it can be; None when
\* there is no match
re_search_group(literal, x, s) ==
    LET starts == {p \in 1..Len(s) + 1 : Ends(Cat(<<literal, x>>), s, {p}) # {}}
    IN  IF starts = {} THEN None
        ELSE LET a == Max(Ends(literal, s, {Min(starts)}))
                 b == Max(Ends(Plus(x), s, {a}))
             IN  Some(SubSeq(s, a, b - 1))

\* sub in s, for two str
Contains(s, sub) ==
    \E i \in 1..Len(s) + 1 :
        i + Len(sub) - 1 <= Len(s) /\ SubSeq(s, i, i + Len(sub) - 1) = sub

-----------------------------------------------------------------------------
(* parsers/pdf.py: the heading classifier *)

\* (?:\d+\.?\s+)?
NumberPrefix == Opt(Cat(<<Plus(Digit), Opt(Lit(".")), Plus(Space)>>))

\* ^(?:\d+\.?\s+)?(name)$
Canonical(name) == Cat(<<Bol, NumberPrefix, name, Eol>>)

\* the generic pattern with .{2,59}: one character less of free text
GenericMutShort ==
    Cat(<<Bol, Plus(Digit), Opt(Lit(".")), Plus(Space), NonSpace, Rep(AnyChar, 2, 59), Eol>>)

\* "Generic numbered section": ^(\d+\.?\s+\S.{2,60})$
GenericPattern ==
    Cat(<<Bol, Plus(Digit), Opt(Lit(".")), Plus(Space), NonSpace, Rep(AnyChar, 2, 60), Eol>>)

CanonicalPatterns == <<
    Canonical(Str(<<"a","b","s","t","r","a","c","t">>)),
    Canonical(Str(<<"i","n","t","r","o","d","u","c","t","i","o","n">>)),
    Canonical(Cat(<<Str(<<"r","e","l","a","t","e","d">>), Plus(Space), Str(<<"w","o","r","k">>)>>)),
    Canonical(Str(<<"b","a","c","k","g","r","o","u","n","d">>)),
    Canonical(Cat(<<Str(<<"m","e","t","h","o","d">>), Opt(Alt(<<Str(<<"o","l","o","g","y">>), Str(<<"s">>)>>))>>)),
    Canonical(Str(<<"a","p","p","r","o","a","c","h">>)),
    Canonical(Cat(<<Str(<<"e","x","p","e","r","i","m","e","n","t">>),
                    Opt(Alt(<<Str(<<"s">>),
                              Cat(<<Str(<<"a","l">>), Plus(Space),
                                    Alt(<<Str(<<"s","e","t","u","p">>), Str(<<"r","e","s","u","l","t","s">>)>>)>>)>>))>>)),
    Canonical(Cat(<<Str(<<"r","e","s","u","l","t">>), Opt(Str(<<"s">>))>>)),
    Canonical(Str(<<"e","v","a","l","u","a","t","i","o","n">>)),
    Canonical(Str(<<"d","i","s","c","u","s","s","i","o","n">>)),
    Canonical(Cat(<<Str(<<"c","o","n","c","l","u","s","i","o","n">>), Opt(Str(<<"s">>))>>)),
    Canonical(Cat(<<Str(<<"f","u","t","u","r","e">>), Plus(Space), Str(<<"w","o","r","k">>)>>)),
    Canonical(Cat(<<Str(<<"a","c","k","n","o","w","l","e","d","g">>), Opt(Lit("e")), Str(<<"m","e","n","t">>), Opt(Lit("s"))>>)),
    Canonical(Cat(<<Str(<<"r","e","f","e","r","e","n","c","e">>), Opt(Lit("s"))>>)),
    Canonical(Cat(<<Str(<<"a","p","p","e","n","d","i">>), Alt(<<Str(<<"x">>), Str(<<"c","e","s">>)>>)>>)) >>

_HEADING_PATTERNS == CanonicalPatterns \o <<GenericPattern>>

\* [re.compile(p, re.IGNORECASE) for p in _HEADING_PATTERNS]: Lit folds case
_HEADING_RE == _HEADING_PATTERNS

MaxHeadingLen == 80

\* _is_heading without the test of the length
_is_heading_unbounded(line) ==
    LET stripped == strip(line)
    IN  IF stripped = <<>> THEN FALSE
        ELSE \E i \in DOMAIN _HEADING_RE : re_match(_HEADING_RE[i], stripped)

_is_heading(line) ==
    LET stripped == strip(line)
    IN  IF stripped = <<>> \/ Len(stripped) > MaxHeadingLen THEN FALSE
        ELSE \E i \in DOMAIN _HEADING_RE : re_match(_HEADING_RE[i], stripped)

\* the leading number without its dotted groups: ^\d+\.?\s*
LeadingNumberMutFlat == Cat(<<Bol, Plus(Digit), Opt(Lit(".")), Star(Space)>>)

\* ^\d+(?:\.\d+)*\.?\s*
LeadingNumber ==
    Cat(<<Bol, Plus(Digit), Star(Cat(<<Lit("."), Plus(Digit)>>)), Opt(Lit(".")), Star(Space)>>)

_clean_heading(line) ==
    LET stripped == strip(line)
        cleaned == re_sub_prefix(LeadingNumber, stripped)
    IN  IF cleaned # <<>> THEN str_title(cleaned) ELSE stripped

-----------------------------------------------------------------------------
(* models.py *)

\* Section(heading, content): translated defaults to None
Section(heading, content) ==
    [heading |-> heading, content |-> content, translated |-> None]

\* Paper(title, authors, abstract, sections, source_format): source_url
\* defaults to None
Paper(t, au, ab, secs, fmt) ==
    [title |-> t, authors |-> au, abstract |-> ab, sections |-> secs,
     source_url |-> None, source_format |-> fmt]

\* all_sections without the test of the abstract
all_sections_always_abstract(self) ==
    <<Section(<<"A","b","s","t","r","a","c","t">>, self.abstract)>> \o self.sections

\* Paper.all_sections
all_sections(self) ==
    (IF self.abstract # <<>> THEN <<Section(<<"A","b","s","t","r","a","c","t">>, self.abstract)>> ELSE <<>>)
        \o self.sections

-----------------------------------------------------------------------------
(* The calls of the heading classifier: one line, classified and normalised *)

HeadingIdle == hline = <<>> /\ heading_res = None /\ clean_res = None

CallIsHeading ==
    /\ pc = "classifier"
    /\ heading_res = None
    /\ heading_res' = Some(_is_heading(hline))
    /\ UNCHANGED <<hline, clean_res>>
    /\ UNCHANGED <<pvars, ovars>>

CallCleanHeading ==
    /\ pc = "classifier"
    /\ clean_res = None
    /\ clean_res' = Some(_clean_heading(hline))
    /\ UNCHANGED <<hline, heading_res>>
    /\ UNCHANGED <<pvars, ovars>>

-----------------------------------------------------------------------------
(* PdfParser._structure_text(text, "pdf"), line by line, and the caller's   *)
(* paper.all_sections()                                                    *)

\* lines 104-109 and 118-123: the section that a heading line or the end of the
\* input closes
CloseAbstract(heading, body, ab) ==
    IF lower(heading) = <<"a","b","s","t","r","a","c","t">> THEN body ELSE ab

\* the close-out that appends the abstract as a Section too
CloseSectionsKeepAbstract(heading, body, secs) ==
    Append(secs, Section(heading, body))

CloseSections(heading, body, secs) ==
    IF lower(heading) = <<"a","b","s","t","r","a","c","t">> THEN secs
    ELSE Append(secs, Section(heading, body))

\* the first line that is not blank, as it stands
FirstLineUnstripped(ls) ==
    LET nonblank == {i \in DOMAIN ls : strip(ls[i]) # <<>>}
    IN  IF nonblank = {} THEN <<>> ELSE ls[Min(nonblank)]

\* lines 95-98: the first line that is not blank, stripped
FirstLine(ls) ==
    LET nonblank == {i \in DOMAIN ls : strip(ls[i]) # <<>>}
    IN  IF nonblank = {} THEN <<>> ELSE strip(ls[Min(nonblank)])

\* lines 85-98: split the text, initialise the locals, find the title
FindTitle ==
    /\ pc = "title"
    /\ lines' = split(text)
    /\ title' = FirstLine(split(text))
    /\ abstract' = <<>>
    /\ sections' = <<>>
    /\ current_heading' = None
    /\ current_lines' = <<>>
    /\ in_body' = FALSE
    /\ li' = 1
    /\ pc' = "scan"
    /\ UNCHANGED <<text, synthesized, paper, parts>>
    /\ UNCHANGED <<hvars, ovars>>

\* lines 101-113: a heading line closes the open section and opens the next
ScanHeading ==
    /\ pc = "scan"
    /\ li <= Len(lines)
    /\ _is_heading(lines[li])
    /\ IF current_heading # None
       THEN LET body == strip(join(current_lines))
            IN  /\ abstract' = CloseAbstract(current_heading[1], body, abstract)
                /\ sections' = CloseSections(current_heading[1], body, sections)
       ELSE UNCHANGED <<abstract, sections>>
    /\ current_heading' = Some(_clean_heading(lines[li]))
    /\ current_lines' = <<>>
    /\ in_body' = TRUE
    /\ li' = li + 1
    /\ UNCHANGED <<text, lines, title, synthesized, paper, parts, pc>>
    /\ UNCHANGED <<hvars, ovars>>

\* lines 114-115: a line after the first heading joins the open section
ScanBody ==
    /\ pc = "scan"
    /\ li <= Len(lines)
    /\ ~_is_heading(lines[li])
    /\ in_body
    /\ current_lines' = Append(current_lines, lines[li])
    /\ li' = li + 1
    /\ UNCHANGED <<text, lines, title, abstract, sections, current_heading,
                   in_body, synthesized, paper, parts, pc>>
    /\ UNCHANGED <<hvars, ovars>>

\* the scan that keeps a line before the first heading for the first section
ScanSkipKeeps ==
    /\ pc = "scan"
    /\ li <= Len(lines)
    /\ ~_is_heading(lines[li])
    /\ ~in_body
    /\ current_lines' = Append(current_lines, lines[li])
    /\ li' = li + 1
    /\ UNCHANGED <<text, lines, title, abstract, sections, current_heading,
                   in_body, synthesized, paper, parts, pc>>
    /\ UNCHANGED <<hvars, ovars>>

\* line 114, in_body false: a line before the first heading is passed over
ScanSkip ==
    /\ pc = "scan"
    /\ li <= Len(lines)
    /\ ~_is_heading(lines[li])
    /\ ~in_body
    /\ li' = li + 1
    /\ UNCHANGED <<text, lines, title, abstract, sections, current_heading,
                   current_lines, in_body, synthesized, paper, parts, pc>>
    /\ UNCHANGED <<hvars, ovars>>

\* lines 117-123: the end of the input closes the open section
CloseLast ==
    /\ pc = "scan"
    /\ li > Len(lines)
    /\ IF current_heading # None
       THEN LET body == strip(join(current_lines))
            IN  /\ abstract' = CloseAbstract(current_heading[1], body, abstract)
                /\ sections' = CloseSections(current_heading[1], body, sections)
       ELSE UNCHANGED <<abstract, sections>>
    /\ pc' = "fallback"
    /\ UNCHANGED <<text, lines, li, title, current_heading, current_lines,
                   in_body, synthesized, paper, parts>>
    /\ UNCHANGED <<hvars, ovars>>

\* the test of line 126 without its "and not abstract"
NeedsFallbackNoSections(secs, ab) == secs = <<>>

\* line 126: if not sections and not abstract
NeedsFallback(secs, ab) == secs = <<>> /\ ab = <<>>

\* lines 125-135: the "Full Paper" section, and the Paper returned
Return ==
    /\ pc = "fallback"
    /\ LET fallback == NeedsFallback(sections, abstract)
           secs == IF fallback
                   THEN Append(sections, Section(<<"F","u","l","l"," ","P","a","p","e","r">>, strip(text)))
                   ELSE sections
       IN  /\ synthesized' = fallback
           /\ sections' = secs
           /\ paper' = Paper(title, <<>>, abstract, secs, "pdf")
    /\ pc' = "parsed"
    /\ UNCHANGED <<text, lines, li, title, abstract, current_heading,
                   current_lines, in_body, parts>>
    /\ UNCHANGED <<hvars, ovars>>

\* the caller's paper.all_sections()
AllSections ==
    /\ pc = "parsed"
    /\ parts' = Some(all_sections(paper))
    /\ pc' = "viewed"
    /\ UNCHANGED <<text, lines, li, title, abstract, sections, current_heading,
                   current_lines, in_body, synthesized, paper>>
    /\ UNCHANGED <<hvars, ovars>>

-----------------------------------------------------------------------------
(* providers/__init__.py: the provider registry *)

\* PROVIDER_INFO: the api_key_env of each registered provider
PROVIDER_INFO ==
    [claude |-> [api_key_env |-> Some("ANTHROPIC_API_KEY")],
     openai |-> [api_key_env |-> Some("OPENAI_API_KEY")],
     gemini |-> [api_key_env |-> Some("GOOGLE_API_KEY")],
     groq |-> [api_key_env |-> Some("GROQ_API_KEY")],
     openrouter |-> [api_key_env |-> Some("OPENROUTER_API_KEY")],
     ollama |-> [api_key_env |-> None]]

\* os.environ.get(key): None, or <<value>>
environ_get(env, key) == IF key \in DOMAIN env THEN Some(env[key]) ELSE None

\* check_provider_configured that accepts a provider whose key is not set
check_provider_unchecked(name, env) ==
    IF name \notin DOMAIN PROVIDER_INFO THEN Some("ValueError") ELSE None

\* check_provider_configured(name): None when it returns, or <<e>> when it
\* raises e
check_provider_configured(name, env) ==
    IF name \notin DOMAIN PROVIDER_INFO THEN Some("ValueError")
    ELSE IF PROVIDER_INFO[name].api_key_env = None THEN None
    ELSE LET value == environ_get(env, PROVIDER_INFO[name].api_key_env[1])
         IN  IF value = None \/ value[1] = <<>>
             THEN Some("ProviderNotConfiguredError")
             ELSE None

\* the names for which get_provider has a factory
Factories == {"claude", "openai", "gemini", "groq", "openrouter", "ollama"}

-----------------------------------------------------------------------------
(* translator.py: translate_paper *)

DEFAULT_PROVIDER == "gemini"

\* the texts llm.complete returns
LlmTexts == { <<>>, <<"n","o"," ","c","a","p">>, <<"i","t"," ","s","l","a","p","s">> }

\* provider_name or DEFAULT_PROVIDER
ProviderName(provider_name) ==
    IF provider_name # None /\ provider_name[1] # "" THEN provider_name[1]
    ELSE DEFAULT_PROVIDER

TranslatorIdle ==
    /\ t_args = [paper |-> Paper(<<>>, <<>>, <<>>, <<>>, "unknown"),
                 provider_name |-> None,
                 on_section_start |-> FALSE, on_section_done |-> FALSE]
    /\ t_paper = t_args.paper
    /\ all_secs = <<>>
    /\ ti = 0
    /\ events = <<>>
    /\ in_flight = 0
    /\ results = <<>>
    /\ environ = <<>>
    /\ factories = <<>>
    /\ llm = None

\* get_provider, line 111: the check, which raises or lets the call go on
GetProviderCheck ==
    /\ pc = "t_call"
    /\ LET e == check_provider_configured(ProviderName(t_args.provider_name), environ)
       IN  IF e # None
           THEN raised' = e /\ pc' = "t_raised"
           ELSE raised' = raised /\ pc' = "t_factory"
    /\ UNCHANGED tvars
    /\ UNCHANGED not_tvars

\* get_provider, lines 113-169: the factory of the named provider, whose import
\* may fail; then translate_paper, line 102
GetProviderFactory ==
    /\ pc = "t_factory"
    /\ LET name == ProviderName(t_args.provider_name)
       IN  IF name \in Factories
           THEN /\ factories' = Append(factories, name)
                /\ \E installed \in BOOLEAN :
                      IF installed
                      THEN /\ llm' = Some(name)
                           /\ all_secs' = all_sections(t_paper)
                           /\ raised' = raised
                           /\ pc' = "t_loop"
                      ELSE /\ raised' = Some("ImportError")
                           /\ pc' = "t_raised"
                           /\ UNCHANGED <<llm, all_secs>>
           ELSE /\ raised' = Some("ValueError")
                /\ pc' = "t_raised"
                /\ UNCHANGED <<factories, llm, all_secs>>
    /\ UNCHANGED <<t_args, t_paper, ti, events, in_flight, results, environ>>
    /\ UNCHANGED not_tvars

StartEvent(i, heading) == <<"on_section_start", i, heading>>
CompleteEvent(i, heading) == <<"complete", i, heading>>
DoneEvent(i, heading) == <<"on_section_done", i, heading>>

\* the loop body up to its await, with the call issued before the callback
SectionStartCallFirst ==
    /\ pc = "t_loop"
    /\ ti < Len(all_secs)
    /\ LET heading == all_secs[ti + 1].heading
       IN  events' = events \o <<CompleteEvent(ti, heading)>>
                \o (IF t_args.on_section_start THEN <<StartEvent(ti, heading)>> ELSE <<>>)
    /\ in_flight' = in_flight + 1
    /\ pc' = "t_await"
    /\ UNCHANGED <<t_args, t_paper, all_secs, ti, results, environ, factories, llm, raised>>
    /\ UNCHANGED not_tvars

\* translate_paper, lines 104-110 and translate_section up to its await: the
\* callback, if there is one, and the call of llm.complete
SectionStart ==
    /\ pc = "t_loop"
    /\ ti < Len(all_secs)
    /\ LET heading == all_secs[ti + 1].heading
       IN  events' = events
                \o (IF t_args.on_section_start THEN <<StartEvent(ti, heading)>> ELSE <<>>)
                \o <<CompleteEvent(ti, heading)>>
    /\ in_flight' = in_flight + 1
    /\ pc' = "t_await"
    /\ UNCHANGED <<t_args, t_paper, all_secs, ti, results, environ, factories, llm, raised>>
    /\ UNCHANGED not_tvars

\* the Section objects of all_sections as copies of those of paper.sections
SetTranslatedOfCopy(p, secs, k, r) == p

\* the Section objects of all_sections are those of paper.sections, after the
\* Abstract section all_sections() made: entry k of the list is entry
\* k - offset of paper.sections
SetTranslated(p, secs, k, r) ==
    LET j == k - (Len(secs) - Len(p.sections))
    IN  IF j >= 1 THEN [p EXCEPT !.sections[j].translated = r] ELSE p

\* translate_paper, lines 108-114: llm.complete returns, the result is stored
\* in the section, the callback, if there is one, is fired
SectionDone ==
    /\ pc = "t_await"
    /\ \E r \in LlmTexts :
          /\ results' = Append(results, r)
          /\ all_secs' = [all_secs EXCEPT ![ti + 1].translated = Some(r)]
          /\ t_paper' = SetTranslated(t_paper, all_secs, ti + 1, Some(r))
    /\ in_flight' = in_flight - 1
    /\ events' = events
            \o (IF t_args.on_section_done
                THEN <<DoneEvent(ti, all_secs[ti + 1].heading)>> ELSE <<>>)
    /\ ti' = ti + 1
    /\ pc' = "t_loop"
    /\ UNCHANGED <<t_args, environ, factories, llm, raised>>
    /\ UNCHANGED not_tvars

\* llm.complete raises: the exception leaves translate_paper
CompleteRaises ==
    /\ pc = "t_await"
    /\ in_flight' = in_flight - 1
    /\ raised' = Some("LLMError")
    /\ pc' = "t_raised"
    /\ UNCHANGED <<t_args, t_paper, all_secs, ti, events, results, environ, factories, llm>>
    /\ UNCHANGED not_tvars

\* x or y, for x a str or None held as None / <<str>>
OrElse(x, y) == IF x # None /\ x[1] # <<>> THEN x[1] ELSE y

\* the write-back that takes the translated abstract as it is
WriteBackVerbatim(p, secs) ==
    IF p.abstract # <<>> /\ secs # <<>>
    THEN [p EXCEPT !.abstract = secs[1].translated[1], !.sections = Tail(secs)]
    ELSE [p EXCEPT !.sections = secs]

\* the write-back that assigns all of all_sections to paper.sections
WriteBackAllSections(p, secs) ==
    IF p.abstract # <<>> /\ secs # <<>>
    THEN [p EXCEPT !.abstract = OrElse(secs[1].translated, p.abstract),
                   !.sections = secs]
    ELSE [p EXCEPT !.sections = secs]

\* translate_paper, lines 117-122
WriteBack(p, secs) ==
    IF p.abstract # <<>> /\ secs # <<>>
    THEN [p EXCEPT !.abstract = OrElse(secs[1].translated, p.abstract),
                   !.sections = Tail(secs)]
    ELSE [p EXCEPT !.sections = secs]

\* translate_paper, lines 116-124: the loop is over
TranslateReturn ==
    /\ pc = "t_loop"
    /\ ti = Len(all_secs)
    /\ t_paper' = WriteBack(t_paper, all_secs)
    /\ pc' = "translated"
    /\ UNCHANGED <<t_args, all_secs, ti, events, in_flight, results, environ,
                   factories, llm, raised>>
    /\ UNCHANGED not_tvars

-----------------------------------------------------------------------------
(* parsers/fetcher.py *)

WordChars == LowerSet \cup UpperSet \cup Digits \cup {"_"}

\* arxiv\.org/abs/([\w.]+) and arxiv\.org/pdf/([\w.]+): the literal and the
\* class of the group
_ARXIV_ABS_RE == <<Exact(<<"a","r","x","i","v",".","o","r","g","/","a","b","s","/">>), OneOf(WordChars \cup {"."})>>
_ARXIV_PDF_RE == <<Exact(<<"a","r","x","i","v",".","o","r","g","/","p","d","f","/">>), OneOf(WordChars \cup {"."})>>

\* _arxiv_id_from_url(url): None, or <<id>>
_arxiv_id_from_url(url) ==
    LET abs == re_search_group(_ARXIV_ABS_RE[1], _ARXIV_ABS_RE[2], url)
    IN  IF abs # None THEN abs
        ELSE re_search_group(_ARXIV_PDF_RE[1], _ARXIV_PDF_RE[2], url)

_arxiv_html_url(arxiv_id) == <<"h","t","t","p","s",":","/","/","a","r","x","i","v",".","o","r","g","/","h","t","m","l","/">> \o arxiv_id

_arxiv_pdf_url(arxiv_id) == <<"h","t","t","p","s",":","/","/","a","r","x","i","v",".","o","r","g","/","p","d","f","/">> \o arxiv_id

\* Path(source).name, for a source that does not end with a slash
PathName(source) ==
    LET slashes == {k \in DOMAIN source : source[k] = "/"}
    IN  IF slashes = {} THEN source
        ELSE SubSeq(source, Max(slashes) + 1, Len(source))

\* Path(source).suffix: from the last dot of the name, unless the name starts
\* or ends with it
PathSuffix(source) ==
    LET name == PathName(source)
        dots == {k \in DOMAIN name : name[k] = "."}
    IN  IF dots # {} /\ 1 < Max(dots) /\ Max(dots) < Len(name)
        THEN SubSeq(name, Max(dots), Len(name))
        ELSE <<>>

\* the Paper a parser returns: what the structurers, modelled on their own,
\* make of the document, with the source_format of the parser
Parsed(fmt) == [doc_paper EXCEPT !.source_format = fmt]

\* _parse_local that compares the suffix as it is
_parse_local_case(path) ==
    LET suffix == PathSuffix(path)
    IN  IF suffix = <<".","p","d","f">> THEN [parser |-> <<"PdfParser", "parse">>, raised |-> None]
        ELSE IF suffix \in { <<".","h","t","m","l">>, <<".","h","t","m">> }
             THEN [parser |-> <<"HtmlParser", "parse">>, raised |-> None]
             ELSE [parser |-> <<>>, raised |-> Some("ValueError")]

\* _parse_local(path): the parser method it calls, or the exception it raises
_parse_local(path) ==
    LET suffix == lower(PathSuffix(path))
    IN  IF suffix = <<".","p","d","f">> THEN [parser |-> <<"PdfParser", "parse">>, raised |-> None]
        ELSE IF suffix \in { <<".","h","t","m","l">>, <<".","h","t","m">> }
             THEN [parser |-> <<"HtmlParser", "parse">>, raised |-> None]
             ELSE [parser |-> <<>>, raised |-> Some("ValueError")]

\* what a GET gives: an httpx.HTTPError of the transport, or a response
TransportError == [error |-> TRUE, status_code |-> 0, content_type |-> None]
Response(status, ctype) == [error |-> FALSE, status_code |-> status, content_type |-> ctype]

\* resp.headers.get("content-type", "")
ContentType(resp) == IF resp.content_type = None THEN <<>> ELSE resp.content_type[1]

\* raise_for_status that lets every status below 400 pass
IsSuccessBelow400(resp) == resp.status_code < 400

\* resp.is_success, which raise_for_status tests
IsSuccess(resp) == resp.status_code \in 200..299

\* the test of line 84 without the status
QualifiesAsHtmlAnyStatus(resp) == Contains(ContentType(resp), <<"t","e","x","t","/","h","t","m","l">>)

\* fetcher.py, line 84
QualifiesAsHtml(resp) ==
    resp.status_code = 200 /\ Contains(ContentType(resp), <<"t","e","x","t","/","h","t","m","l">>)

\* the responses a GET can get
Responses ==
    {TransportError} \cup
    {Response(status, ctype) :
        status \in {200, 204, 302, 404, 500},
        ctype \in {None, Some(<<"t","e","x","t","/","h","t","m","l",";"," ","c","h","a","r","s","e","t","=","u","t","f","-","8">>), Some(<<"a","p","p","l","i","c","a","t","i","o","n","/","p","d","f">>),
                   Some(<<"T","e","x","t","/","H","T","M","L">>), Some(<<"a","p","p","l","i","c","a","t","i","o","n","/","x","h","t","m","l","+","x","m","l">>),
                   Some(<<"a","p","p","l","i","c","a","t","i","o","n","/","x","-","P","D","F">>)}}

FetcherIdle ==
    /\ f_args = [source |-> <<>>, prefer_html |-> TRUE]
    /\ fs = {}
    /\ requests = <<>>
    /\ responses = <<>>
    /\ parser_calls = <<>>
    /\ f_paper = None

\* paper.source_url set to the URL that was requested last
WithRequestedUrl(p, url) == [p EXCEPT !.source_url = Some(requests[Len(requests)])]

\* paper.source_url = url
WithSourceUrl(p, url) == [p EXCEPT !.source_url = Some(url)]

\* fetch_paper that tries the arXiv HTML page whatever prefer_html is
FetchPaperHtmlFirst ==
    /\ pc = "f_call"
    /\ IF f_args.source \in fs
       THEN LET local == _parse_local(f_args.source)
            IN  IF local.raised # None
                THEN /\ raised' = local.raised
                     /\ pc' = "f_raised"
                     /\ UNCHANGED <<parser_calls, f_paper, requests>>
                ELSE /\ parser_calls' = Append(parser_calls, local.parser)
                     /\ f_paper' = Some(Parsed(IF local.parser[1] = "PdfParser"
                                               THEN "pdf" ELSE "html"))
                     /\ pc' = "fetched"
                     /\ UNCHANGED <<raised, requests>>
       ELSE LET arxiv_id == _arxiv_id_from_url(f_args.source)
            IN  /\ IF arxiv_id # None /\ arxiv_id[1] # <<>>
                   THEN /\ requests' = Append(requests, _arxiv_html_url(arxiv_id[1]))
                        /\ pc' = "f_html"
                   ELSE /\ requests' = Append(requests, f_args.source)
                        /\ pc' = "f_direct"
                /\ UNCHANGED <<parser_calls, f_paper, raised>>
    /\ UNCHANGED <<f_args, fs, responses>>
    /\ UNCHANGED not_fvars

\* fetch_paper, lines 54-58, with _parse_local, and _fetch_remote up to its
\* first await: a file that exists is parsed; for anything else a GET is issued,
\* of the arXiv HTML page when the URL has an arXiv id and HTML is preferred
FetchPaper ==
    /\ pc = "f_call"
    /\ IF f_args.source \in fs
       THEN LET local == _parse_local(f_args.source)
            IN  IF local.raised # None
                THEN /\ raised' = local.raised
                     /\ pc' = "f_raised"
                     /\ UNCHANGED <<parser_calls, f_paper, requests>>
                ELSE /\ parser_calls' = Append(parser_calls, local.parser)
                     /\ f_paper' = Some(Parsed(IF local.parser[1] = "PdfParser"
                                               THEN "pdf" ELSE "html"))
                     /\ pc' = "fetched"
                     /\ UNCHANGED <<raised, requests>>
       ELSE LET arxiv_id == _arxiv_id_from_url(f_args.source)
            IN  /\ IF arxiv_id # None /\ arxiv_id[1] # <<>> /\ f_args.prefer_html
                   THEN /\ requests' = Append(requests, _arxiv_html_url(arxiv_id[1]))
                        /\ pc' = "f_html"
                   ELSE /\ requests' = Append(requests, f_args.source)
                        /\ pc' = "f_direct"
                /\ UNCHANGED <<parser_calls, f_paper, raised>>
    /\ UNCHANGED <<f_args, fs, responses>>
    /\ UNCHANGED not_fvars

\* the arXiv HTML page is taken whatever its status
HtmlResponseAnyStatus ==
    /\ pc = "f_html"
    /\ \E resp \in Responses :
          /\ responses' = Append(responses, resp)
          /\ IF ~resp.error /\ QualifiesAsHtmlAnyStatus(resp)
             THEN /\ parser_calls' = Append(parser_calls, <<"HtmlParser", "parse_string">>)
                  /\ f_paper' = Some(WithSourceUrl(Parsed("html"), f_args.source))
                  /\ pc' = "fetched"
                  /\ UNCHANGED requests
             ELSE /\ requests' = Append(requests,
                        _arxiv_pdf_url(_arxiv_id_from_url(f_args.source)[1]))
                  /\ pc' = "f_pdf"
                  /\ UNCHANGED <<parser_calls, f_paper>>
    /\ UNCHANGED <<f_args, fs, raised>>
    /\ UNCHANGED not_fvars

\* _fetch_remote, lines 82-94: the GET of the arXiv HTML page is over; a
\* response of status 200 and an HTML content type is parsed and returned; on
\* any other response, and on an httpx.HTTPError, the GET of the PDF is issued
HtmlResponse ==
    /\ pc = "f_html"
    /\ \E resp \in Responses :
          /\ responses' = Append(responses, resp)
          /\ IF ~resp.error /\ QualifiesAsHtml(resp)
             THEN /\ parser_calls' = Append(parser_calls, <<"HtmlParser", "parse_string">>)
                  /\ f_paper' = Some(WithSourceUrl(Parsed("html"), f_args.source))
                  /\ pc' = "fetched"
                  /\ UNCHANGED requests
             ELSE /\ requests' = Append(requests,
                        _arxiv_pdf_url(_arxiv_id_from_url(f_args.source)[1]))
                  /\ pc' = "f_pdf"
                  /\ UNCHANGED <<parser_calls, f_paper>>
    /\ UNCHANGED <<f_args, fs, raised>>
    /\ UNCHANGED not_fvars

\* _fetch_remote, lines 94-98: the GET of the arXiv PDF is over
PdfResponse ==
    /\ pc = "f_pdf"
    /\ \E resp \in Responses :
          /\ responses' = Append(responses, resp)
          /\ IF resp.error
             THEN /\ raised' = Some("HTTPError")
                  /\ pc' = "f_raised"
                  /\ UNCHANGED <<parser_calls, f_paper>>
             ELSE IF ~IsSuccess(resp)
             THEN /\ raised' = Some("HTTPStatusError")
                  /\ pc' = "f_raised"
                  /\ UNCHANGED <<parser_calls, f_paper>>
             ELSE /\ parser_calls' = Append(parser_calls, <<"PdfParser", "parse_bytes">>)
                  /\ f_paper' = Some(WithSourceUrl(Parsed("pdf"), f_args.source))
                  /\ pc' = "fetched"
                  /\ UNCHANGED raised
    /\ UNCHANGED <<f_args, fs, requests>>
    /\ UNCHANGED not_fvars

\* _fetch_remote, lines 100-111: the one GET of the URL itself is over
DirectResponse ==
    /\ pc = "f_direct"
    /\ \E resp \in Responses :
          /\ responses' = Append(responses, resp)
          /\ IF resp.error
             THEN /\ raised' = Some("HTTPError")
                  /\ pc' = "f_raised"
                  /\ UNCHANGED <<parser_calls, f_paper>>
             ELSE IF ~IsSuccess(resp)
             THEN /\ raised' = Some("HTTPStatusError")
                  /\ pc' = "f_raised"
                  /\ UNCHANGED <<parser_calls, f_paper>>
             ELSE /\ IF Contains(ContentType(resp), <<"p","d","f">>)
                     THEN /\ parser_calls' = Append(parser_calls, <<"PdfParser", "parse_bytes">>)
                          /\ f_paper' = Some(WithSourceUrl(Parsed("pdf"), f_args.source))
                     ELSE /\ parser_calls' = Append(parser_calls, <<"HtmlParser", "parse_string">>)
                          /\ f_paper' = Some(WithSourceUrl(Parsed("html"), f_args.source))
                  /\ pc' = "fetched"
                  /\ UNCHANGED raised
    /\ UNCHANGED <<f_args, fs, requests>>
    /\ UNCHANGED not_fvars

-----------------------------------------------------------------------------
(* models.py: ToneLevel; prompts.py *)

\* the values of the members of ToneLevel: LIGHT, MODERATE, BALANCED, HEAVY,
\* UNHINGED
ToneLevelValues == {1, 2, 3, 4, 5}

\* ToneLevel(value) that takes the nearest member for a value that is none
ToneLevelClamped(value) ==
    Some(IF value < 1 THEN 1 ELSE IF value > 5 THEN 5 ELSE value)

\* ToneLevel(value): <<value>> when it is the value of a member, None when the
\* lookup raises ValueError
ToneLevel(value) == IF value \in ToneLevelValues THEN Some(value) ELSE None

\* _TONE_INSTRUCTIONS: the block of each tone, named by its first sentence
_TONE_INSTRUCTIONS ==
    << "Tone: Light casual.", "Tone: Moderately casual.", "Tone: Balanced millennial.",
       "Tone: Heavy millennial.", "Tone: Full unhinged millennial chaos." >>

\* build_system_prompt(tone): the parts of the string
build_system_prompt(tone) == <<"_BASE_INSTRUCTIONS", "\n", _TONE_INSTRUCTIONS[tone]>>

-----------------------------------------------------------------------------
(* cli.py and web.py: the translate command and the /translate endpoint *)

_PROVIDER == "gemini"

\* the most entries of all_sections() of a parsed paper
MaxEntries == 2
\* the most chunks of the stream of one section
MaxChunks == 1

FetchCall(source) == [kind |-> "fetch_paper", source |-> source, system |-> <<>>]
LlmCall(system) == [kind |-> "llm", source |-> <<>>, system |-> system]

EntryIdle ==
    /\ e_args = [entry |-> "none", tone |-> 3, source |-> <<>>, file |-> FALSE]
    /\ tone_level = None
    /\ net_calls = <<>>
    /\ e_n = 0
    /\ e_i = 0
    /\ sse = <<>>

\* typer.Option(..., min=1, max=5): the range check of the option
InOptionRange(tone) == 1 <= tone /\ tone <= 5

\* cli.py, lines 37-85: the option is checked, the tone looked up, and
\* _run_translation calls fetch_paper
CliTranslate ==
    /\ pc = "cli_call"
    /\ IF ~InOptionRange(e_args.tone)
       THEN /\ raised' = Some("BadParameter")
            /\ pc' = "e_raised"
            /\ UNCHANGED <<tone_level, net_calls>>
       ELSE IF ToneLevel(e_args.tone) = None
       THEN /\ raised' = Some("ValueError")
            /\ pc' = "e_raised"
            /\ UNCHANGED <<tone_level, net_calls>>
       ELSE /\ tone_level' = ToneLevel(e_args.tone)
            /\ net_calls' = Append(net_calls, FetchCall(e_args.source))
            /\ pc' = "cli_fetch"
            /\ UNCHANGED raised
    /\ UNCHANGED <<e_args, e_n, e_i, sse>>
    /\ UNCHANGED not_evars

\* cli.py, lines 85-100: fetch_paper returns a Paper or raises
CliFetched ==
    /\ pc = "cli_fetch"
    /\ \E n \in 0..MaxEntries, ok \in BOOLEAN :
          IF ok
          THEN e_n' = n /\ pc' = "cli_provider" /\ UNCHANGED raised
          ELSE raised' = Some("FetchError") /\ pc' = "e_raised" /\ UNCHANGED e_n
    /\ UNCHANGED <<e_args, tone_level, net_calls, e_i, sse>>
    /\ UNCHANGED not_evars

\* cli.py, line 109, translator.py, line 101: translate_paper gets the provider
CliGetProvider ==
    /\ pc = "cli_provider"
    /\ LET e == check_provider_configured(DEFAULT_PROVIDER, environ)
       IN  \E installed \in BOOLEAN :
              IF e # None THEN raised' = e /\ pc' = "e_raised"
              ELSE IF ~installed THEN raised' = Some("ImportError") /\ pc' = "e_raised"
              ELSE raised' = raised /\ pc' = "cli_loop"
    /\ UNCHANGED evars
    /\ UNCHANGED not_evars

\* translator.py, lines 104-114, for the CLI: one section is translated with
\* the prompt of the tone
CliSection ==
    /\ pc = "cli_loop"
    /\ e_i < e_n
    /\ net_calls' = Append(net_calls, LlmCall(build_system_prompt(tone_level[1])))
    /\ \E ok \in BOOLEAN :
          IF ok
          THEN e_i' = e_i + 1 /\ UNCHANGED <<pc, raised>>
          ELSE raised' = Some("LLMError") /\ pc' = "e_raised" /\ UNCHANGED e_i
    /\ UNCHANGED <<e_args, tone_level, e_n, sse>>
    /\ UNCHANGED not_evars

\* cli.py, lines 116-136: the markdown is written
CliOutput ==
    /\ pc = "cli_loop"
    /\ e_i = e_n
    /\ pc' = "e_done"
    /\ UNCHANGED <<evars, raised>>
    /\ UNCHANGED not_evars

\* _sse(event, data): the event, with the index of its section, or for the
\* meta event its section_count
SseEvent(event, index) == <<event, index>>

\* web.py, lines 41-81: the tone is looked up, the provider checked, and the
\* paper parsed from the upload or fetched from the URL; with a parsed upload
\* the stream begins with its meta event
WebTranslate ==
    /\ pc = "web_call"
    /\ IF ToneLevel(e_args.tone) = None
       THEN /\ raised' = Some("ValueError")
            /\ pc' = "e_raised"
            /\ UNCHANGED <<tone_level, net_calls, e_n, sse>>
       ELSE IF check_provider_configured(_PROVIDER, environ) # None
       THEN /\ tone_level' = ToneLevel(e_args.tone)
            /\ sse' = <<SseEvent("error", 0)>>
            /\ pc' = "e_done"
            /\ UNCHANGED <<net_calls, e_n, raised>>
       ELSE IF e_args.file
       THEN /\ \E n \in 0..MaxEntries : e_n' = n
            /\ tone_level' = ToneLevel(e_args.tone)
            /\ sse' = <<SseEvent("meta", e_n')>>
            /\ pc' = "web_stream"
            /\ UNCHANGED <<net_calls, raised>>
       ELSE IF e_args.source # <<>>
       THEN /\ tone_level' = ToneLevel(e_args.tone)
            /\ net_calls' = Append(net_calls, FetchCall(e_args.source))
            /\ pc' = "web_fetch"
            /\ UNCHANGED <<e_n, sse, raised>>
       ELSE /\ tone_level' = ToneLevel(e_args.tone)
            /\ sse' = <<SseEvent("error", 0)>>
            /\ pc' = "e_done"
            /\ UNCHANGED <<net_calls, e_n, raised>>
    /\ UNCHANGED <<e_args, e_i>>
    /\ UNCHANGED not_evars

\* web.py, lines 72 and 79-90: fetch_paper returns a Paper, and the stream
\* begins with its meta event, or raises
WebFetched ==
    /\ pc = "web_fetch"
    /\ \E n \in 0..MaxEntries, ok \in BOOLEAN :
          IF ok
          THEN /\ e_n' = n
               /\ sse' = <<SseEvent("meta", n)>>
               /\ pc' = "web_stream"
               /\ UNCHANGED raised
          ELSE /\ raised' = Some("FetchError")
               /\ pc' = "e_raised"
               /\ UNCHANGED <<e_n, sse>>
    /\ UNCHANGED <<e_args, tone_level, net_calls, e_i>>
    /\ UNCHANGED not_evars

\* the events yielded since the section_start event of the section that is
\* being streamed: its chunk events
RECURSIVE ChunksSent(_)
ChunksSent(evs) ==
    IF evs = <<>> \/ evs[Len(evs)][1] # "chunk" THEN 0
    ELSE 1 + ChunksSent(SubSeq(evs, 1, Len(evs) - 1))

\* web.py, lines 93-94: the loop goes on to section i and yields its
\* section_start event
WebSectionStart ==
    /\ pc = "web_stream"
    /\ e_i < e_n
    /\ sse' = Append(sse, SseEvent("section_start", e_i))
    /\ pc' = "web_section"
    /\ UNCHANGED <<e_args, tone_level, net_calls, e_n, e_i, raised>>
    /\ UNCHANGED not_evars

\* web.py, lines 96-100, translator.py, lines 66-74: translate_section_stream
\* makes the provider, which may fail, and calls llm.stream with the prompt of
\* the tone; a failure is caught at line 104 and ends the events with an error
\* event
WebStreamOpen ==
    /\ pc = "web_section"
    /\ \E installed \in BOOLEAN :
          IF installed
          THEN /\ net_calls' = Append(net_calls, LlmCall(build_system_prompt(tone_level[1])))
               /\ pc' = "web_chunks"
               /\ UNCHANGED sse
          ELSE /\ sse' = Append(sse, SseEvent("error", 0))
               /\ pc' = "e_done"
               /\ UNCHANGED net_calls
    /\ UNCHANGED <<e_args, tone_level, e_n, e_i, raised>>
    /\ UNCHANGED not_evars

\* web.py, line 101: the stream of the LLM gives a chunk, which is yielded
WebChunk ==
    /\ pc = "web_chunks"
    /\ ChunksSent(sse) < MaxChunks
    /\ sse' = Append(sse, SseEvent("chunk", e_i))
    /\ UNCHANGED <<e_args, tone_level, net_calls, e_n, e_i, raised, pc>>
    /\ UNCHANGED not_evars

\* web.py, lines 104-106: the stream of the LLM raises, the error event is
\* yielded and the generator returns
WebStreamRaises ==
    /\ pc = "web_chunks"
    /\ sse' = Append(sse, SseEvent("error", 0))
    /\ pc' = "e_done"
    /\ UNCHANGED <<e_args, tone_level, net_calls, e_n, e_i, raised>>
    /\ UNCHANGED not_evars

\* web.py, line 103: the stream of the LLM is over, the section_done event is
\* yielded
WebSectionDone ==
    /\ pc = "web_chunks"
    /\ sse' = Append(sse, SseEvent("section_done", e_i))
    /\ e_i' = e_i + 1
    /\ pc' = "web_stream"
    /\ UNCHANGED <<e_args, tone_level, net_calls, e_n, raised>>
    /\ UNCHANGED not_evars

\* what is thrown into the generator when the client has gone: the generator
\* is closed at its yield, or the task that runs it is cancelled
Disconnections == {"GeneratorExit", "CancelledError"}

\* an except clause that catches BaseException
ExceptBaseException(exc) == TRUE

\* web.py, line 104: except Exception catches neither GeneratorExit nor
\* CancelledError, which derive from BaseException
ExceptException(exc) == exc \notin {"GeneratorExit", "CancelledError"}

\* the client disconnects while the events are streamed: the exception is
\* thrown where the generator is suspended, inside the try block of lines
\* 92-106 once a section has started; caught there, it would give the error
\* event of line 105
ClientDisconnect ==
    /\ pc \in {"web_stream", "web_section", "web_chunks"}
    /\ \E exc \in Disconnections :
          IF (pc # "web_stream" \/ e_i > 0) /\ ExceptException(exc)
          THEN sse' = Append(sse, SseEvent("error", 0))
          ELSE sse' = sse
    /\ pc' = "e_closed"
    /\ UNCHANGED <<e_args, tone_level, net_calls, e_n, e_i, raised>>
    /\ UNCHANGED not_evars

\* web.py, line 108: the stream ends
WebDone ==
    /\ pc = "web_stream"
    /\ e_i = e_n
    /\ sse' = Append(sse, SseEvent("done", 0))
    /\ pc' = "e_done"
    /\ UNCHANGED <<e_args, tone_level, net_calls, e_n, e_i, raised>>
    /\ UNCHANGED not_evars

-----------------------------------------------------------------------------
(* BeautifulSoup: the tree of a parsed document.                           *)
(* A node is a string, a tag with its classes, attributes and children, or *)
(* the place of a node that decompose() removed; a node of the tree is     *)
(* named by its path, the indices of the children that lead to it.         *)

Text(s) == [name |-> "#text", cls |-> {}, attrs |-> <<>>, kids |-> <<>>, s |-> s]
Tag(name, cls, kids) == [name |-> name, cls |-> cls, attrs |-> <<>>, kids |-> kids, s |-> <<>>]
TagWithAttrs(name, attrs) == [name |-> name, cls |-> {}, attrs |-> attrs, kids |-> <<>>, s |-> <<>>]
Gone == [name |-> "#gone", cls |-> {}, attrs |-> <<>>, kids |-> <<>>, s |-> <<>>]
BeautifulSoup(kids) == Tag("[document]", {}, kids)

\* isinstance(node, Tag)
IsTag(node) == node.name \notin {"#text", "#gone"}

RECURSIVE NodeAt(_, _)
NodeAt(node, path) ==
    IF path = <<>> THEN node ELSE NodeAt(node.kids[Head(path)], Tail(path))

\* the tree with the node at path replaced
RECURSIVE ReplaceAt(_, _, _)
ReplaceAt(node, path, new) ==
    IF path = <<>> THEN new
    ELSE [node EXCEPT !.kids[Head(path)] = ReplaceAt(@, Tail(path), new)]

\* tag.decompose(): the node at path leaves the tree
decompose(tree, path) == ReplaceAt(tree, path, Gone)

\* the strings of a node, in document order
RECURSIVE Strings(_), StringsOf(_)
Strings(node) ==
    IF node.name = "#text" THEN <<node.s>> ELSE StringsOf(node.kids)

StringsOf(kids) ==
    IF kids = <<>> THEN <<>> ELSE Strings(Head(kids)) \o StringsOf(Tail(kids))

\* separator.join(ls)
RECURSIVE str_join(_, _)
str_join(separator, ls) ==
    IF ls = <<>> THEN <<>>
    ELSE IF Len(ls) = 1 THEN ls[1]
    ELSE ls[1] \o separator \o str_join(separator, Tail(ls))

\* the stripped strings that are not empty
RECURSIVE Stripped(_)
Stripped(ss) ==
    IF ss = <<>> THEN <<>>
    ELSE (IF strip(Head(ss)) = <<>> THEN <<>> ELSE <<strip(Head(ss))>>)
            \o Stripped(Tail(ss))

\* node.get_text(separator=separator, strip=True)
get_text(node, separator) == str_join(separator, Stripped(Strings(node)))

\* the paths of the tags under the node at path, in document order
RECURSIVE Under(_, _), UnderKids(_, _, _)
Under(node, path) == UnderKids(node, path, 1)

UnderKids(node, path, k) ==
    IF k > Len(node.kids) THEN <<>>
    ELSE LET kid == node.kids[k]
             here == path \o <<k>>
         IN  (IF IsTag(kid) THEN <<here>> \o Under(kid, here) ELSE <<>>)
                \o UnderKids(node, path, k + 1)

\* tag.find_all(class_=cls), for the tag at path
find_all_class(tree, path, cls) ==
    SelectSeq(Under(NodeAt(tree, path), path), LAMBDA p : cls \in NodeAt(tree, p).cls)

\* tag.find_all(name)
find_all_name(tree, path, name) ==
    SelectSeq(Under(NodeAt(tree, path), path), LAMBDA p : NodeAt(tree, p).name = name)

\* find: None, or <<path>> of the first
First(paths) == IF paths = <<>> THEN None ELSE Some(paths[1])

\* tag.get(key, ""), for the attributes of a tag
RECURSIVE attr_get(_, _)
attr_get(attrs, key) ==
    IF attrs = <<>> THEN <<>>
    ELSE IF Head(attrs)[1] = key THEN Head(attrs)[2]
    ELSE attr_get(Tail(attrs), key)

-----------------------------------------------------------------------------
(* parsers/html.py *)

_HEADING_TAGS == {"h1", "h2", "h3", "h4"}

_SKIP_HEADINGS == { <<"r","e","f","e","r","e","n","c","e","s">>, <<"b","i","b","l","i","o","g","r","a","p","h","y">>, <<"a","c","k","n","o","w","l","e","d","g","e","m","e","n","t","s">>, <<"a","c","k","n","o","w","l","e","d","g","m","e","n","t","s">> }

Root == <<>>

\* soup.find(class_=cls) for the first cls of the tuple that finds a tag
RECURSIVE FirstOfClasses(_, _)
FirstOfClasses(tree, classes) ==
    IF classes = <<>> THEN None
    ELSE LET tag == First(find_all_class(tree, Root, Head(classes)))
         IN  IF tag # None THEN tag ELSE FirstOfClasses(tree, Tail(classes))

\* HtmlParser._extract_title
_extract_title(tree) ==
    LET tag == FirstOfClasses(tree, <<"ltx_title", "document-title", "title">>)
        title_tag == First(find_all_name(tree, Root, "title"))
    IN  IF tag # None THEN get_text(NodeAt(tree, tag[1]), <<>>)
        ELSE IF title_tag # None THEN get_text(NodeAt(tree, title_tag[1]), <<>>)
        ELSE <<"U","n","t","i","t","l","e","d">>

\* the texts of the tags at the paths that are not empty
RECURSIVE NamesOf(_, _)
NamesOf(tree, paths) ==
    IF paths = <<>> THEN <<>>
    ELSE LET name == get_text(NodeAt(tree, Head(paths)), <<>>)
         IN  (IF name # <<>> THEN <<name>> ELSE <<>>) \o NamesOf(tree, Tail(paths))

\* the content attributes of the tags at the paths that are not empty
RECURSIVE ContentsOf(_, _)
ContentsOf(tree, paths) ==
    IF paths = <<>> THEN <<>>
    ELSE LET content == attr_get(NodeAt(tree, Head(paths)).attrs, "content")
         IN  (IF content # <<>> THEN <<content>> ELSE <<>>) \o ContentsOf(tree, Tail(paths))

\* HtmlParser._extract_authors
_extract_authors(tree) ==
    LET authors == NamesOf(tree, find_all_class(tree, Root, "ltx_personname"))
        metas == SelectSeq(find_all_name(tree, Root, "meta"),
                           LAMBDA p : attr_get(NodeAt(tree, p).attrs, "name") = <<"a","u","t","h","o","r">>)
    IN  IF authors # <<>> THEN authors ELSE ContentsOf(tree, metas)

\* HtmlParser._extract_abstract: the abstract, and the tree as it leaves it
_extract_abstract(tree) ==
    LET tag == FirstOfClasses(tree, <<"ltx_abstract", "abstract">>)
    IN  IF tag = None THEN [abstract |-> <<>>, soup |-> tree]
        ELSE LET heading == First(find_all_class(tree, tag[1], "ltx_title"))
                 left == IF heading # None THEN decompose(tree, heading[1]) ELSE tree
             IN  [abstract |-> get_text(NodeAt(left, tag[1]), <<>>), soup |-> left]

\* soup.find("body") or soup
Body(tree) ==
    LET body == First(find_all_name(tree, Root, "body"))
    IN  IF body # None THEN body[1] ELSE Root

HtmlIdle ==
    /\ html = BeautifulSoup(<<>>)
    /\ soup = html
    /\ h_title = <<>>
    /\ h_authors = <<>>
    /\ h_abstract = <<>>
    /\ ltx_sections = <<>>
    /\ h_i = 1
    /\ h_sections = <<>>
    /\ h_heading = None
    /\ h_parts = <<>>
    /\ h_paper = None

\* parse_string, lines 34-39, and _extract_sections, lines 98-106: the title,
\* the authors and the abstract are taken, the section elements are looked
\* for, and one of the two ways of finding sections begins
ParseString ==
    /\ pc = "h_call"
    /\ h_title' = _extract_title(html)
    /\ h_authors' = _extract_authors(html)
    /\ h_abstract' = _extract_abstract(html).abstract
    /\ soup' = _extract_abstract(html).soup
    /\ ltx_sections' = find_all_class(soup', Root, "ltx_section")
    /\ pc' = IF ltx_sections' # <<>> THEN "h_ltx" ELSE "h_generic"
    /\ UNCHANGED <<html, h_i, h_sections, h_heading, h_parts, h_paper>>
    /\ UNCHANGED not_dvars

\* _parse_ltx_sections, lines 112-125: one element of ltx_sections
LtxSection ==
    /\ pc = "h_ltx"
    /\ h_i <= Len(ltx_sections)
    /\ LET sec == ltx_sections[h_i]
           heading_tag == First(find_all_class(soup, sec, "ltx_title"))
           heading == IF heading_tag # None
                      THEN get_text(NodeAt(soup, heading_tag[1]), <<>>)
                      ELSE <<"U","n","t","i","t","l","e","d"," ","S","e","c","t","i","o","n">>
       IN  IF lower(heading) \in _SKIP_HEADINGS
           THEN UNCHANGED <<soup, h_sections>>
           ELSE /\ soup' = IF heading_tag # None
                           THEN decompose(soup, heading_tag[1]) ELSE soup
                /\ LET content == get_text(NodeAt(soup', sec), <<"\n">>)
                   IN  h_sections' =
                          IF content # <<>>
                          THEN Append(h_sections, Section(heading, content))
                          ELSE h_sections
    /\ h_i' = h_i + 1
    /\ UNCHANGED <<html, h_title, h_authors, h_abstract, ltx_sections, h_heading,
                   h_parts, h_paper, pc>>
    /\ UNCHANGED not_dvars

\* _parse_ltx_sections, line 127, and parse_string, lines 41-47
LtxReturn ==
    /\ pc = "h_ltx"
    /\ h_i > Len(ltx_sections)
    /\ h_paper' = Some(Paper(h_title, h_authors, h_abstract, h_sections, "html"))
    /\ pc' = "h_parsed"
    /\ UNCHANGED <<html, soup, h_title, h_authors, h_abstract, ltx_sections, h_i,
                   h_sections, h_heading, h_parts>>
    /\ UNCHANGED not_dvars

\* _parse_generic_sections, lines 143-145 and 155-157: the sections with the
\* pending one closed
Closed(secs, heading, parts_) ==
    IF heading = None THEN secs
    ELSE LET content == strip(str_join(<<"\n">>, parts_))
         IN  IF content # <<>> /\ lower(heading[1]) \notin _SKIP_HEADINGS
             THEN Append(secs, Section(heading[1], content))
             ELSE secs

\* _parse_generic_sections, lines 136-151: one element of body.children
GenericChild ==
    /\ pc = "h_generic"
    /\ h_i <= Len(NodeAt(soup, Body(soup)).kids)
    /\ LET element == NodeAt(soup, Body(soup)).kids[h_i]
       IN  IF ~IsTag(element)
           THEN UNCHANGED <<h_sections, h_heading, h_parts>>
           ELSE IF element.name \in _HEADING_TAGS
           THEN /\ h_sections' = Closed(h_sections, h_heading, h_parts)
                /\ h_heading' = Some(get_text(element, <<>>))
                /\ h_parts' = <<>>
           ELSE IF h_heading # None
           THEN /\ h_parts' = IF get_text(element, <<"\n">>) # <<>>
                              THEN Append(h_parts, get_text(element, <<"\n">>))
                              ELSE h_parts
                /\ UNCHANGED <<h_sections, h_heading>>
           ELSE UNCHANGED <<h_sections, h_heading, h_parts>>
    /\ h_i' = h_i + 1
    /\ UNCHANGED <<html, soup, h_title, h_authors, h_abstract, ltx_sections, h_paper, pc>>
    /\ UNCHANGED not_dvars

\* _parse_generic_sections, lines 159-163: the sections, or the one section
\* made of all the text when there is none
WithFullPaper(secs, tree) ==
    IF secs = <<>> /\ get_text(tree, <<"\n">>) # <<>>
    THEN <<Section(<<"F","u","l","l"," ","P","a","p","e","r">>, get_text(tree, <<"\n">>))>>
    ELSE secs

\* _parse_generic_sections, lines 153-165, and parse_string, lines 41-47
GenericReturn ==
    /\ pc = "h_generic"
    /\ h_i > Len(NodeAt(soup, Body(soup)).kids)
    /\ h_sections' = WithFullPaper(Closed(h_sections, h_heading, h_parts), soup)
    /\ h_paper' = Some(Paper(h_title, h_authors, h_abstract, h_sections', "html"))
    /\ pc' = "h_parsed"
    /\ UNCHANGED <<html, soup, h_title, h_authors, h_abstract, ltx_sections, h_i,
                   h_heading, h_parts>>
    /\ UNCHANGED not_dvars
-----------------------------------------------------------------------------
(* cli.py: _run_translation, from the fetch to the markdown *)

RunIdle ==
    /\ doc_paper = Paper(<<"U","n","t","i","t","l","e","d">>, <<>>, <<>>, <<>>, "unknown")
    /\ out_lines = <<>>
    /\ result = None

\* cli.py, lines 85-109: fetch_paper has returned the Paper, and translate_paper
\* is called with it and with the two callbacks of the progress bar
RunTranslatePaper ==
    /\ pc = "fetched"
    /\ t_args' = [paper |-> f_paper[1], provider_name |-> None,
                  on_section_start |-> TRUE, on_section_done |-> TRUE]
    /\ t_paper' = f_paper[1]
    /\ pc' = "t_call"
    /\ UNCHANGED <<all_secs, ti, events, in_flight, results, environ, factories, llm>>
    /\ UNCHANGED <<not_tvars, raised>>

\* the block of a section that always takes section.translated
SectionBlockTranslated(section) ==
    LET body == IF section.translated # None THEN section.translated[1]
                ELSE section.content
    IN  << <<"#","#"," ">> \o section.heading \o <<"\n">>, body \o <<"\n">> >>

\* cli.py, lines 125-127: the two entries of lines for one section
SectionBlock(section) ==
    LET body == OrElse(section.translated, section.content)
    IN  << <<"#","#"," ">> \o section.heading \o <<"\n">>, body \o <<"\n">> >>

RECURSIVE SectionBlocks(_)
\* cli.py, lines 124-127: the loop over paper.sections
SectionBlocks(secs) ==
    IF secs = <<>> THEN <<>>
    ELSE SectionBlock(Head(secs)) \o SectionBlocks(Tail(secs))

\* cli.py, lines 117-127: lines, for the translated paper
OutputLines(p) ==
    << <<"#"," ">> \o p.title \o <<"\n">> >>
        \o (IF p.abstract # <<>> THEN << <<"#","#"," ","A","b","s","t","r","a","c","t","\n">>, p.abstract \o <<"\n">> >> ELSE <<>>)
        \o SectionBlocks(p.sections)

\* cli.py, lines 116-129: translate_paper has returned, the markdown is built
RunOutput ==
    /\ pc = "translated"
    /\ out_lines' = OutputLines(t_paper)
    /\ result' = Some(str_join(<<"\n">>, OutputLines(t_paper)))
    /\ pc' = "run_done"
    /\ UNCHANGED <<doc_paper, hvars, svars, tvars, fvars, evars, dvars, raised>>

-----------------------------------------------------------------------------
(* Inputs *)

\* the longest text given to _structure_text, in lines
MaxLines == 3
\* the longest run of filler characters in a line given to the classifier
MaxFree == 62
\* the longest run of whitespace between a numeral and the words after it
MaxGap == 75

SpecExample ==
    <<"T","i","t","l","e","\n","\n","A","b","s","t","r","a","c","t","\n","T","h","i","s"," ","i","s"," ","t","h","e"," ","a","b","s","t","r","a","c","t",".","\n","\n","1","."," ","I","n","t","r","o","d","u","c","t","i","o","n","\n","B","o","d","y"," ","t","e","x","t"," ","h","e","r","e",".","\n","\n","R","e","f","e","r","e","n","c","e","s","\n","S","o","m","e"," ","c","i","t","a","t","i","o","n","s",".","\n">>

LinePool ==
    { <<"T","i","t","l","e">>, <<>>, <<" "," ","M","y"," ","P","a","p","e","r",":"," ","a"," ","S","t","u","d","y","."," "," ">>, <<"A","b","s","t","r","a","c","t">>, <<"1","."," ","I","n","t","r","o","d","u","c","t","i","o","n">>,
      <<"R","e","f","e","r","e","n","c","e","s">>, <<"B","o","d","y"," ","t","e","x","t"," ","h","e","r","e",".">>, <<"2"," ","t","h","e"," ","m","e","t","h","o","d">>, <<"3","."," "," ","A","B","S","T","R","A","C","T">> }

Texts ==
    {join(ls) : ls \in UNION {[1..n -> LinePool] : n \in 0..MaxLines}}
        \cup {SpecExample}

Numerals == { <<>>, <<"3">>, <<"3",".">>, <<"1","2">>, <<"1","2",".">>, <<"3",".","2">>, <<"3",".","2",".">>, <<"1","2",".","5",".","1">> }

Fill(c, n) == [i \in 1..n |-> c]

Gaps == {Fill(" ", n) : n \in {0, 1, 2, 17, 18, MaxGap}} \cup { <<" ","\t">> }

Words ==
    { <<"a","b","s","t","r","a","c","t">>, <<"I","n","t","r","o","d","u","c","t","i","o","n">>, <<"R","E","L","A","T","E","D"," "," ","W","O","R","K">>, <<"R","e","l","a","t","e","d"," ","W","o","r","k">>, <<"b","a","c","k","g","r","o","u","n","d">>,
      <<"m","e","t","h","o","d">>, <<"M","e","t","h","o","d","o","l","o","g","y">>, <<"m","e","t","h","o","d","s">>, <<"a","p","p","r","o","a","c","h">>, <<"e","x","p","e","r","i","m","e","n","t">>,
      <<"E","x","p","e","r","i","m","e","n","t","s">>, <<"e","x","p","e","r","i","m","e","n","t","a","l"," ","s","e","t","u","p">>, <<"E","x","p","e","r","i","m","e","n","t","a","l","\t","R","e","s","u","l","t","s">>, <<"r","e","s","u","l","t">>,
      <<"r","e","s","u","l","t","s">>, <<"e","v","a","l","u","a","t","i","o","n">>, <<"D","i","s","c","u","s","s","i","o","n">>, <<"c","o","n","c","l","u","s","i","o","n">>, <<"c","o","n","c","l","u","s","i","o","n","s">>,
      <<"F","u","t","u","r","e"," ","W","o","r","k">>, <<"a","c","k","n","o","w","l","e","d","g","e","m","e","n","t">>, <<"a","c","k","n","o","w","l","e","d","g","m","e","n","t">>, <<"A","c","k","n","o","w","l","e","d","g","e","m","e","n","t","s">>,
      <<"a","c","k","n","o","w","l","e","d","g","m","e","n","t","s">>, <<"r","e","f","e","r","e","n","c","e">>, <<"R","e","f","e","r","e","n","c","e","s">>, <<"a","p","p","e","n","d","i","x">>, <<"A","p","p","e","n","d","i","c","e","s">>,
      <<"i","n","t","r","o","d","u","c","t","i","o","n","s">>, <<"a","b","s","t","r","a","c","t"," ","i","n","t","r","o","d","u","c","t","i","o","n">>, <<"S","o","m","e","t","h","i","n","g"," ","N","e","w">>, <<"o","u","r"," ","i","d","e","a">>,
      <<"a","b"," ","c","d">>, <<"a"," ","b">>, <<"2"," ","b">>, <<"d","o","n","'","t"," ","S","T","O","P">>, <<"b","i","b","l","i","o","g","r","a","p","h","y">> }
        \cup {Fill("x", n) : n \in 0..MaxFree}

Paddings == { <<<<>>, <<>>>>, <<<<" ">>, <<"\t"," ">>>> }

HeadingInputs ==
    {pad[1] \o num \o gap \o word \o pad[2] :
        pad \in Paddings, num \in Numerals, gap \in Gaps, word \in Words}

-----------------------------------------------------------------------------
(* Specifications *)

NoPaper == Paper(<<>>, <<>>, <<>>, <<>>, "unknown")

StructurerIdle ==
    /\ lines = <<>>
    /\ li = 1
    /\ title = <<>>
    /\ abstract = <<>>
    /\ sections = <<>>
    /\ current_heading = None
    /\ current_lines = <<>>
    /\ in_body = FALSE
    /\ synthesized = FALSE
    /\ paper = NoPaper
    /\ parts = None

\* _structure_text is called with a text
Init ==
    /\ text \in Texts
    /\ pc = "title"
    /\ StructurerIdle
    /\ HeadingIdle
    /\ TranslatorIdle
    /\ FetcherIdle
    /\ EntryIdle
    /\ HtmlIdle
    /\ RunIdle
    /\ raised = None

Next ==
    \/ FindTitle
    \/ ScanHeading
    \/ ScanBody
    \/ ScanSkip
    \/ CloseLast
    \/ Return
    \/ AllSections

Spec == Init /\ [][Next]_vars

\* _is_heading and _clean_heading are called with a line
InitHeading ==
    /\ hline \in HeadingInputs
    /\ heading_res = None
    /\ clean_res = None
    /\ text = <<>>
    /\ pc = "classifier"
    /\ StructurerIdle
    /\ TranslatorIdle
    /\ FetcherIdle
    /\ EntryIdle
    /\ HtmlIdle
    /\ RunIdle
    /\ raised = None

NextHeading ==
    \/ CallIsHeading
    \/ CallCleanHeading

SpecHeading == InitHeading /\ [][NextHeading]_vars


-----------------------------------------------------------------------------
(* translate_paper is called with a Paper *)

\* the most sections of a Paper given to translate_paper
MaxSections == 2

SectionPool == { Section(<<"I","n","t","r","o","d","u","c","t","i","o","n">>, <<"W","e"," ","s","t","u","d","y",".">>), Section(<<"M","e","t","h","o","d">>, <<"W","e"," ","d","i","d",".">>) }

TPapers ==
    {Paper(<<"T","i","t","l","e">>, <<>>, ab, secs, "pdf") :
        ab \in { <<>>, <<"W","e"," ","c","l","a","i","m",".">> },
        secs \in UNION {[1..n -> SectionPool] : n \in 0..MaxSections}}

ProviderNames == {None, Some(""), Some("claude"), Some("ollama"), Some("llama")}

Environs ==
    { <<>>,
      [k \in {"GOOGLE_API_KEY"} |-> <<"g","-","1">>],
      [k \in {"GOOGLE_API_KEY", "ANTHROPIC_API_KEY"} |-> IF k = "GOOGLE_API_KEY" THEN <<>> ELSE <<"a","-","1">>] }

InitTranslate ==
    /\ t_args \in [paper : TPapers, provider_name : ProviderNames,
                   on_section_start : BOOLEAN, on_section_done : BOOLEAN]
    /\ t_paper = t_args.paper
    /\ environ \in Environs
    /\ all_secs = <<>>
    /\ ti = 0
    /\ events = <<>>
    /\ in_flight = 0
    /\ results = <<>>
    /\ factories = <<>>
    /\ llm = None
    /\ FetcherIdle
    /\ EntryIdle
    /\ HtmlIdle
    /\ RunIdle
    /\ raised = None
    /\ pc = "t_call"
    /\ text = <<>>
    /\ StructurerIdle
    /\ HeadingIdle

NextTranslate ==
    \/ GetProviderCheck
    \/ GetProviderFactory
    \/ SectionStart
    \/ SectionDone
    \/ CompleteRaises
    \/ TranslateReturn

SpecTranslate == InitTranslate /\ [][NextTranslate]_vars

-----------------------------------------------------------------------------
(* fetch_paper is called with a source *)

\* the longest arXiv id in the sources, in characters
MaxIdLen == 12

Ids == {Fill("7", n) : n \in {1, MaxIdLen}}
        \cup { <<"2","3","0","1",".","1","2","3","4","5">>, <<"2","3","0","1",".","1","2","3","4","5","v","2">>, <<"c","s","_","L","G",".","0","1">>, <<"h","e","p","-","t","h","/","9","9","0","1","0","0","1">> }

Urls ==
    {prefix \o id : prefix \in { <<"h","t","t","p","s",":","/","/","a","r","x","i","v",".","o","r","g","/","a","b","s","/">>, <<"h","t","t","p",":","/","/","a","r","x","i","v",".","o","r","g","/","p","d","f","/">> },
                    id \in Ids}
        \cup { <<"h","t","t","p","s",":","/","/","a","r","x","i","v",".","o","r","g","/","a","b","s","/">>, <<"h","t","t","p","s",":","/","/","A","R","X","I","V",".","o","r","g","/","a","b","s","/","2","3","0","1",".","1","2","3","4","5">>,
               <<"h","t","t","p","s",":","/","/","a","r","x","i","v",".","o","r","g","/","h","t","m","l","/","2","3","0","1",".","1","2","3","4","5">>, <<"h","t","t","p","s",":","/","/","e","x","a","m","p","l","e",".","o","r","g","/","p","a","p","e","r",".","p","d","f">>,
               <<"h","t","t","p","s",":","/","/","e","x","a","m","p","l","e",".","o","r","g","/","a","?","u","=","a","r","x","i","v",".","o","r","g","/","p","d","f","/","1",".","2","&","v","=","a","r","x","i","v",".","o","r","g","/","a","b","s","/","3",".","4">>,
               <<"h","t","t","p","s",":","/","/","e","x","a","m","p","l","e",".","o","r","g","/">> }

LocalFiles ==
    { <<"p","a","p","e","r",".","p","d","f">>, <<"n","o","t","e","s","/","P","a","p","e","r",".","P","D","F">>, <<"p","a","g","e",".","h","t","m","l">>, <<"s","i","t","e",".","v","2","/","P","a","g","e",".","H","t","M">>, <<"d","a","t","a",".","t","x","t">>,
      <<"R","E","A","D","M","E">>, <<".","p","d","f">>, <<"a","r","c","h","i","v","e",".","p","d","f",".","g","z">>, <<"p","d","f">>, <<"d","r","a","f","t",".","p","d","f",".">> }

InitFetch ==
    /\ f_args \in [source : Urls \cup LocalFiles, prefer_html : BOOLEAN]
    /\ fs \in {{}, LocalFiles}
    /\ requests = <<>>
    /\ responses = <<>>
    /\ parser_calls = <<>>
    /\ f_paper = None
    /\ raised = None
    /\ pc = "f_call"
    /\ text = <<>>
    /\ StructurerIdle
    /\ HeadingIdle
    /\ TranslatorIdle
    /\ EntryIdle
    /\ HtmlIdle
    /\ RunIdle

NextFetch ==
    \/ FetchPaper
    \/ HtmlResponse
    \/ PdfResponse
    \/ DirectResponse

SpecFetch == InitFetch /\ [][NextFetch]_vars

-----------------------------------------------------------------------------
(* the translate command and the /translate endpoint are called *)

\* the largest tone given
MaxTone == 7

EntryArgs ==
    [entry : {"cli", "web"}, tone : -1..MaxTone,
     source : { <<>>, <<"h","t","t","p","s",":","/","/","a","r","x","i","v",".","o","r","g","/","a","b","s","/","2","3","0","1",".","1","2","3","4","5">> }, file : BOOLEAN]

\* the command has its source argument and no upload
InitEntry ==
    /\ e_args \in {a \in EntryArgs : a.entry = "cli" => a.source # <<>> /\ ~a.file}
    /\ environ \in Environs
    /\ tone_level = None
    /\ net_calls = <<>>
    /\ e_n = 0
    /\ e_i = 0
    /\ sse = <<>>
    /\ raised = None
    /\ pc = IF e_args.entry = "cli" THEN "cli_call" ELSE "web_call"
    /\ text = <<>>
    /\ StructurerIdle
    /\ HeadingIdle
    /\ t_args = [paper |-> Paper(<<>>, <<>>, <<>>, <<>>, "unknown"),
                 provider_name |-> None,
                 on_section_start |-> FALSE, on_section_done |-> FALSE]
    /\ t_paper = t_args.paper
    /\ all_secs = <<>>
    /\ ti = 0
    /\ events = <<>>
    /\ in_flight = 0
    /\ results = <<>>
    /\ factories = <<>>
    /\ llm = None
    /\ FetcherIdle
    /\ HtmlIdle
    /\ RunIdle

NextEntry ==
    \/ CliTranslate
    \/ CliFetched
    \/ CliGetProvider
    \/ CliSection
    \/ CliOutput
    \/ WebTranslate
    \/ WebFetched
    \/ WebSectionStart
    \/ WebStreamOpen
    \/ WebChunk
    \/ WebStreamRaises
    \/ WebSectionDone
    \/ WebDone
    \/ ClientDisconnect

SpecEntry == InitEntry /\ [][NextEntry]_vars

-----------------------------------------------------------------------------
(* HtmlParser.parse_string is called with a document *)

\* the most elements and strings at the top of a document
MaxNodes == 3

P(s) == Tag("p", {}, <<Text(s)>>)

Wrapper(kids) == Tag("section", {"ltx_section"}, kids)

NodePool ==
    { P(<<"B","o","d","y"," ","t","e","x","t",".">>),
      Text(<<"\n"," "," ">>),
      Text(<<"L","o","o","s","e"," ","w","o","r","d","s"," ">>),
      Tag("h2", {}, <<Text(<<"I","n","t","r","o","d","u","c","t","i","o","n">>)>>),
      Tag("h3", {}, <<Text(<<" ","B","i","b","l","i","o","g","r","a","p","h","y">>)>>),
      Tag("div", {"abstract"},
          << Tag("span", {"ltx_title"}, <<Text(<<"A","b","s","t","r","a","c","t">>)>>), P(<<" ","W","e"," ","s","h","o","w","."," ">>) >>),
      Wrapper(<< Tag("h2", {"ltx_title", "ltx_title_section"},
                     << Tag("span", {"ltx_tag"}, <<Text(<<"1"," ">>)>>), Text(<<"I","n","t","r","o">>) >>),
                 Tag("p", {}, << Text(<<"F","i","r","s","t"," ">>), Tag("b", {}, <<Text(<<"b","o","l","d">>)>>),
                                 Text(<<" ","e","n","d",".">>) >>) >>),
      Wrapper(<< Tag("h2", {"ltx_title"}, <<Text(<<"R","e","f","e","r","e","n","c","e","s">>)>>), P(<<"[","1","]"," ","A",".">>) >>),
      Wrapper(<< P(<<"N","o"," ","t","i","t","l","e",".">>) >>),
      Wrapper(<< Tag("h2", {"ltx_title"}, <<Text(<<"E","m","p","t","y">>)>>), Text(<<" ","\n">>) >>),
      Wrapper(<< P(<<"O","u","t","e","r",".">>),
                 Wrapper(<< Tag("h3", {"ltx_title"}, <<Text(<<"I","n","n","e","r">>)>>), P(<<"D","e","e","p",".">>) >>) >>),
      Tag("h2", {}, <<Text(<<"2","."," ","M","e","t","h","o","d">>)>>),
      Tag("div", {"ltx_abstract"},
          << Tag("h6", {"ltx_title", "ltx_section"}, <<Text(<<"A","b","s","t","r","a","c","t">>)>>),
             P(<<"W","e"," ","p","r","o","v","e",".">>) >>),
      Tag("title", {}, <<Text(<<"M","y"," ","P","a","p","e","r">>)>>),
      Tag("span", {"ltx_personname"}, <<Text(<<"A","d","a">>)>>),
      TagWithAttrs("meta", << <<"name", <<"a","u","t","h","o","r">>>>, <<"content", <<"B","o","b">>>> >>) }

\* the documents of at most max nodes at the top: the nodes as they are, or in
\* the body of an html element
Docs(max) ==
    LET tops == UNION {[1..n -> NodePool] : n \in 0..max}
    IN  {BeautifulSoup(kids) : kids \in tops}
            \cup {BeautifulSoup(<<Tag("html", {}, <<Tag("body", {}, kids)>>)>>) : kids \in tops}

InitHtml ==
    /\ html \in Docs(MaxNodes)
    /\ soup = html
    /\ h_title = <<>>
    /\ h_authors = <<>>
    /\ h_abstract = <<>>
    /\ ltx_sections = <<>>
    /\ h_i = 1
    /\ h_sections = <<>>
    /\ h_heading = None
    /\ h_parts = <<>>
    /\ h_paper = None
    /\ raised = None
    /\ pc = "h_call"
    /\ text = <<>>
    /\ StructurerIdle
    /\ HeadingIdle
    /\ TranslatorIdle
    /\ FetcherIdle
    /\ EntryIdle
    /\ RunIdle

NextHtml ==
    \/ ParseString
    \/ LtxSection
    \/ LtxReturn
    \/ GenericChild
    \/ GenericReturn

SpecHtml == InitHtml /\ [][NextHtml]_vars

-----------------------------------------------------------------------------
(* the translate command runs on a source: fetch, translate, output *)

RunSources ==
    { <<"h","t","t","p","s",":","/","/","a","r","x","i","v",".","o","r","g","/","a","b","s","/","2","3","0","1",".","1","2","3","4","5">>, <<"h","t","t","p","s",":","/","/","e","x","a","m","p","l","e",".","o","r","g","/","p","a","p","e","r",".","p","d","f">>, <<"p","a","p","e","r",".","p","d","f">> }

RunPapers ==
    {Paper(<<"T","i","t","l","e">>, <<>>, ab, secs, "unknown") :
        ab \in { <<>>, <<"W","e"," ","c","l","a","i","m",".">> },
        secs \in UNION {[1..n -> SectionPool] : n \in 0..MaxSections}}

InitRun ==
    /\ f_args \in [source : RunSources, prefer_html : {TRUE}]
    /\ fs = LocalFiles
    /\ doc_paper \in RunPapers
    /\ environ \in Environs
    /\ requests = <<>>
    /\ responses = <<>>
    /\ parser_calls = <<>>
    /\ f_paper = None
    /\ t_args = [paper |-> Paper(<<>>, <<>>, <<>>, <<>>, "unknown"),
                 provider_name |-> None,
                 on_section_start |-> FALSE, on_section_done |-> FALSE]
    /\ t_paper = t_args.paper
    /\ all_secs = <<>>
    /\ ti = 0
    /\ events = <<>>
    /\ in_flight = 0
    /\ results = <<>>
    /\ factories = <<>>
    /\ llm = None
    /\ out_lines = <<>>
    /\ result = None
    /\ raised = None
    /\ pc = "f_call"
    /\ text = <<>>
    /\ StructurerIdle
    /\ HeadingIdle
    /\ EntryIdle
    /\ HtmlIdle

NextRun ==
    \/ FetchPaper
    \/ HtmlResponse
    \/ PdfResponse
    \/ DirectResponse
    \/ RunTranslatePaper
    \/ GetProviderCheck
    \/ GetProviderFactory
    \/ SectionStart
    \/ SectionDone
    \/ CompleteRaises
    \/ TranslateReturn
    \/ RunOutput

SpecRun == InitRun /\ [][NextRun]_vars

-----------------------------------------------------------------------------
(* What the structurer is to produce, read off the lines of the text *)

Structured == pc \in {"parsed", "viewed"}

\* the body under the heading line i: the lines up to the next heading line
\* (or the end), joined with newlines and trimmed
BodyUnder(ls, i) ==
    LET later == {j \in DOMAIN ls : j > i /\ _is_heading(ls[j])}
        last == IF later = {} THEN Len(ls) ELSE Min(later) - 1
    IN  strip(join(SubSeq(ls, i + 1, last)))

IsAbstractLine(ls, i) ==
    _is_heading(ls[i]) /\ lower(_clean_heading(ls[i])) = <<"a","b","s","t","r","a","c","t">>

\* one Section per heading line that is not an abstract, in the order of the lines
RECURSIVE SectionsFrom(_, _)
SectionsFrom(ls, i) ==
    IF i > Len(ls) THEN <<>>
    ELSE (IF _is_heading(ls[i]) /\ ~IsAbstractLine(ls, i)
          THEN <<Section(_clean_heading(ls[i]), BodyUnder(ls, i))>>
          ELSE <<>>) \o SectionsFrom(ls, i + 1)

\* the body under the last abstract heading line
AbstractFrom(ls) ==
    LET abs == {i \in DOMAIN ls : IsAbstractLine(ls, i)}
    IN  IF abs = {} THEN <<>> ELSE BodyUnder(ls, Max(abs))

-----------------------------------------------------------------------------
(* C1 *)

SkipList == { <<"r","e","f","e","r","e","n","c","e","s">>, <<"b","i","b","l","i","o","g","r","a","p","h","y">>, <<"a","c","k","n","o","w","l","e","d","g","e","m","e","n","t","s">> }

\* C1: a Paper a Structurer returns has no Section whose heading, lowercased,
\* is references, bibliography or acknowledgements, and the text of the
\* example (Title / Abstract / 1. Introduction / References) yields exactly
\* one Section.
NoSkipListedSection ==
    Structured =>
        /\ \A i \in DOMAIN paper.sections :
              lower(paper.sections[i].heading) \notin SkipList
        /\ text = SpecExample => Len(paper.sections) = 1

(* C2 *)

\* C2: every Section of a Paper a Structurer returns has a content that is
\* not empty: a heading with an empty body yields no Section.
EverySectionHasContent ==
    Structured => \A i \in DOMAIN paper.sections : paper.sections[i].content # <<>>

(* C3 *)

\* C3: when the scan and the close-out at the end of the input are over, the
\* sections are one Section per heading line that is not "abstract" (its
\* normalised heading, its lines joined with newlines and trimmed), in the
\* order of the heading lines, and the abstract is the body closed under an
\* "abstract" heading, which yields no Section.
ClosedSectionsInOrder ==
    pc = "fallback" =>
        /\ sections = SectionsFrom(lines, 1)
        /\ abstract = AbstractFrom(lines)

ClosedAbstractAndTwoSections ==
    /\ pc = "fallback"
    /\ abstract # <<>>
    /\ Len(sections) >= 2
    /\ \E i \in DOMAIN sections : sections[i].content # <<>>

(* C4 *)

IsBlank(l) == \A i \in DOMAIN l : IsSpace(l[i])

\* C4 as stated: the title is the first non-blank line of the text, exactly.
TitleIsFirstLineVerbatim ==
    Structured =>
        \A k \in DOMAIN lines :
            (~IsBlank(lines[k]) /\ \A j \in 1..(k - 1) : IsBlank(lines[j]))
                => paper.title = lines[k]

\* C4 as amended: the title is the first non-blank line of the text with its
\* leading and trailing whitespace removed and nothing else changed, whether
\* or not the line is heading-shaped and whatever follows it.
TitleIsFirstLineStripped ==
    Structured =>
        \A k \in DOMAIN lines :
            (~IsBlank(lines[k]) /\ \A j \in 1..(k - 1) : IsBlank(lines[j]))
                => \E a, b \in 0..Len(lines[k]) :
                      /\ lines[k] = SubSeq(lines[k], 1, a) \o paper.title
                                      \o SubSeq(lines[k], Len(lines[k]) - b + 1, Len(lines[k]))
                      /\ IsBlank(SubSeq(lines[k], 1, a))
                      /\ IsBlank(SubSeq(lines[k], Len(lines[k]) - b + 1, Len(lines[k])))
                      /\ ~IsSpace(paper.title[1])
                      /\ ~IsSpace(paper.title[Len(paper.title)])

HeadingShapedTitle ==
    /\ Structured
    /\ Len(lines) >= 3
    /\ IsBlank(lines[1])
    /\ _is_heading(lines[2])
    /\ paper.title = strip(lines[2])
    /\ paper.title # <<>>

-----------------------------------------------------------------------------
(* C5 *)

\* C5: _is_heading is never true of a line that, trimmed, is empty or longer
\* than 80 characters, canonical or generic numbered pattern or not.
NoHeadingBeyond80 ==
    heading_res = Some(TRUE) =>
        /\ \E i \in DOMAIN hline : ~IsSpace(hline[i])
        /\ Len(strip(hline)) <= 80

LongPatternLineRejected ==
    /\ heading_res = Some(FALSE)
    /\ Len(strip(hline)) > 80
    /\ \E i \in DOMAIN _HEADING_RE : re_match(_HEADING_RE[i], strip(hline))

(* C6 *)

\* s is one or more digits, an optional period, whitespace, and then a free
\* text of lo to hi characters that starts with a character that is not
\* whitespace
GenericShape(s, lo, hi) ==
    \E d \in 1..Len(s), p \in 0..1, w \in 1..Len(s) :
        /\ d + p + w < Len(s)
        /\ \A i \in 1..d : IsDigit(s[i])
        /\ p = 1 => s[d + 1] = "."
        /\ \A i \in (d + p + 1)..(d + p + w) : IsSpace(s[i])
        /\ ~IsSpace(s[d + p + w + 1])
        /\ (Len(s) - (d + p + w)) \in lo..hi

NoCanonicalMatch(s) ==
    \A i \in DOMAIN CanonicalPatterns : ~re_match(CanonicalPatterns[i], s)

\* C6 as stated: a line that matches no canonical name is a heading exactly
\* when it is digits, an optional period, whitespace and a free text of 3 to
\* 60 characters.
GenericHeadingIs3To60 ==
    (heading_res # None /\ NoCanonicalMatch(strip(hline))) =>
        (heading_res[1] <=> GenericShape(strip(hline), 3, 60))

\* C6 as amended: a line that matches no canonical name is a heading exactly
\* when, trimmed, it is at most 80 characters long and is digits, an optional
\* period, whitespace and a free text of 3 to 61 characters (one character
\* that is not whitespace and 2 to 60 more).
GenericHeadingIs3To61 ==
    (heading_res # None /\ NoCanonicalMatch(strip(hline))) =>
        (heading_res[1] <=>
            (Len(strip(hline)) <= 80 /\ GenericShape(strip(hline), 3, 61)))

GenericHeadingOf61 ==
    /\ heading_res = Some(TRUE)
    /\ NoCanonicalMatch(strip(hline))
    /\ GenericShape(strip(hline), 61, 61)

(* C7 *)

CanonicalNames ==
    { <<"a","b","s","t","r","a","c","t">>, <<"i","n","t","r","o","d","u","c","t","i","o","n">>, <<"r","e","l","a","t","e","d"," ","w","o","r","k">>, <<"b","a","c","k","g","r","o","u","n","d">>, <<"m","e","t","h","o","d">>,
      <<"m","e","t","h","o","d","o","l","o","g","y">>, <<"m","e","t","h","o","d","s">>, <<"a","p","p","r","o","a","c","h">>, <<"e","x","p","e","r","i","m","e","n","t">>, <<"e","x","p","e","r","i","m","e","n","t","s">>,
      <<"e","x","p","e","r","i","m","e","n","t","a","l"," ","s","e","t","u","p">>, <<"e","x","p","e","r","i","m","e","n","t","a","l"," ","r","e","s","u","l","t","s">>, <<"r","e","s","u","l","t">>, <<"r","e","s","u","l","t","s">>,
      <<"e","v","a","l","u","a","t","i","o","n">>, <<"d","i","s","c","u","s","s","i","o","n">>, <<"c","o","n","c","l","u","s","i","o","n">>, <<"c","o","n","c","l","u","s","i","o","n","s">>, <<"f","u","t","u","r","e"," ","w","o","r","k">>,
      <<"a","c","k","n","o","w","l","e","d","g","e","m","e","n","t">>, <<"a","c","k","n","o","w","l","e","d","g","e","m","e","n","t","s">>, <<"a","c","k","n","o","w","l","e","d","g","m","e","n","t">>, <<"a","c","k","n","o","w","l","e","d","g","m","e","n","t","s">>,
      <<"r","e","f","e","r","e","n","c","e">>, <<"r","e","f","e","r","e","n","c","e","s">>, <<"a","p","p","e","n","d","i","x">>, <<"a","p","p","e","n","d","i","c","e","s">> }

\* groups of digits separated by periods, with an optional period at the end
NumeralBody(b) ==
    /\ b # <<>>
    /\ IsDigit(b[1])
    /\ \A i \in DOMAIN b : IsDigit(b[i]) \/ b[i] = "."
    /\ \A i \in 1..(Len(b) - 1) : ~(b[i] = "." /\ b[i + 1] = ".")

\* a numeral body and the whitespace after it
IsLeadingNumeral(p) ==
    \E k \in 1..Len(p) :
        /\ \A i \in (k + 1)..Len(p) : IsSpace(p[i])
        /\ NumeralBody(SubSeq(p, 1, k))

\* every run of whitespace as one space
RECURSIVE CollapseSpace(_)
CollapseSpace(w) ==
    IF w = <<>> THEN <<>>
    ELSE IF IsSpace(w[1])
         THEN (IF Len(w) > 1 /\ IsSpace(w[2]) THEN <<>> ELSE <<" ">>) \o CollapseSpace(Tail(w))
    ELSE <<w[1]>> \o CollapseSpace(Tail(w))

\* an optional numeral or dotted numeral, with its optional period, set off by
\* whitespace, and then exactly a canonical name, in any case
NumberedCanonicalName(s) ==
    \E k \in 0..Len(s) :
        /\ k > 0 => (IsSpace(s[k]) /\ IsLeadingNumeral(SubSeq(s, 1, k)))
        /\ CollapseSpace(lower(SubSeq(s, k + 1, Len(s)))) \in CanonicalNames

\* C7: a trimmed line of at most 80 characters that is an optional numeral or
\* dotted numeral ("3", "3.", "3.2") and a canonical section name is a
\* heading; a line that is neither that nor of the generic numbered pattern
\* is not.
CanonicalNameIsHeading ==
    heading_res # None =>
        LET s == strip(hline)
        IN  /\ (Len(s) <= 80 /\ NumberedCanonicalName(s)) => heading_res[1]
            /\ (~NumberedCanonicalName(s) /\ ~re_match(GenericPattern, s))
                   => ~heading_res[1]

(* C8 *)

\* r is of, title-cased: the same letters, a letter uppercase exactly when no
\* letter stands before it
IsTitleCased(r, of) ==
    /\ Len(r) = Len(of)
    /\ \A i \in DOMAIN of :
          IF IsCased(of[i])
          THEN /\ lowerC(r[i]) = lowerC(of[i])
               /\ IsUpperC(r[i]) <=> (i = 1 \/ ~IsCased(of[i - 1]))
          ELSE r[i] = of[i]

\* C8: _clean_heading strips the longest leading numeral (digit groups
\* separated by periods, optional period, optional whitespace) from the
\* trimmed line and returns the rest title-cased, or the trimmed line itself
\* when nothing is left; "3.2 Related Work" gives "Related Work" and
\* "Introduction" gives "Introduction".
CleanHeadingStripsNumeral ==
    clean_res # None =>
        LET s == strip(hline)
            k == Max({0} \cup {j \in 1..Len(s) : IsLeadingNumeral(SubSeq(s, 1, j))})
            rest == SubSeq(s, k + 1, Len(s))
        IN  /\ rest # <<>> => IsTitleCased(clean_res[1], rest)
            /\ rest = <<>> => clean_res[1] = s
            /\ hline = <<"3",".","2"," ","R","e","l","a","t","e","d"," ","W","o","r","k">> => clean_res[1] = <<"R","e","l","a","t","e","d"," ","W","o","r","k">>
            /\ hline = <<"I","n","t","r","o","d","u","c","t","i","o","n">> => clean_res[1] = <<"I","n","t","r","o","d","u","c","t","i","o","n">>

CleanedDottedNumeral ==
    /\ hline = <<"3",".","2"," ","R","e","l","a","t","e","d"," ","W","o","r","k">>
    /\ clean_res = Some(<<"R","e","l","a","t","e","d"," ","W","o","r","k">>)

-----------------------------------------------------------------------------
(* C9 *)

\* C9: when the scan produced no Section and no abstract, the Paper returned
\* has exactly one Section, "Full Paper", with the whole text trimmed;
\* otherwise the Paper has the scan's sections and abstract and no "Full
\* Paper" is added; either way all_sections() has at least one element.
NeverEmptyPaper ==
    /\ [][(pc = "fallback" /\ pc' = "parsed") =>
            IF sections = <<>> /\ abstract = <<>>
            THEN /\ synthesized'
                 /\ paper'.sections = <<Section(<<"F","u","l","l"," ","P","a","p","e","r">>, strip(text))>>
                 /\ paper'.abstract = <<>>
            ELSE /\ ~synthesized'
                 /\ paper'.sections = sections
                 /\ paper'.abstract = abstract]_vars
    /\ [](pc = "viewed" => Len(parts[1]) >= 1)

FullPaperSynthesized ==
    /\ pc = "viewed"
    /\ synthesized
    /\ strip(text) # <<>>
    /\ parts[1] = <<Section(<<"F","u","l","l"," ","P","a","p","e","r">>, strip(text))>>

(* C10 *)

\* C10: all_sections() returns, for a Paper with an abstract, a synthetic
\* "Abstract" Section with the abstract as content followed by the Paper's
\* sections in order (len(sections) + 1 elements); for a Paper without, the
\* Paper's sections in order and nothing else; the Paper is not modified.
AllSectionsView ==
    [][(pc = "parsed" /\ pc' = "viewed") =>
          /\ paper' = paper
          /\ LET r == parts'[1]
             IN  IF paper.abstract # <<>>
                 THEN /\ Len(r) = Len(paper.sections) + 1
                      /\ r[1].heading = <<"A","b","s","t","r","a","c","t">>
                      /\ r[1].content = paper.abstract
                      /\ \A i \in DOMAIN paper.sections : r[i + 1] = paper.sections[i]
                 ELSE r = paper.sections]_vars

AbstractAndSectionsViewed ==
    /\ pc = "viewed"
    /\ paper.abstract # <<>>
    /\ Len(paper.sections) >= 1
    /\ Len(parts[1]) = Len(paper.sections) + 1


-----------------------------------------------------------------------------
(* translate_paper: the reassembly of the Paper *)

\* the sections of the returned Paper are those of the input, in their order,
\* and section i holds result i + offset
SectionsReassembled(offset) ==
    /\ Len(t_paper.sections) = Len(t_args.paper.sections)
    /\ Len(results) = Len(t_args.paper.sections) + offset
    /\ \A i \in DOMAIN t_paper.sections :
          /\ t_paper.sections[i].heading = t_args.paper.sections[i].heading
          /\ t_paper.sections[i].content = t_args.paper.sections[i].content
          /\ t_paper.sections[i].translated = Some(results[i + offset])

\* C11 as stated: when translate_paper has returned, a Paper that had an
\* abstract has the first result as its abstract and result i+1 in section i,
\* and a Paper that had none has result i in section i; the sections are those
\* of the input, in order
AbstractIsFirstResult ==
    pc = "translated" =>
        IF t_args.paper.abstract # <<>>
        THEN t_paper.abstract = results[1] /\ SectionsReassembled(1)
        ELSE SectionsReassembled(0)

\* C11, amended: as above, but the abstract is the first result only when that
\* result is not empty, and is the abstract of the input when it is empty
AbstractIsFirstNonEmptyResult ==
    pc = "translated" =>
        IF t_args.paper.abstract # <<>>
        THEN /\ t_paper.abstract =
                    IF results[1] # <<>> THEN results[1] ELSE t_args.paper.abstract
             /\ SectionsReassembled(1)
        ELSE /\ t_paper.abstract = <<>>
             /\ SectionsReassembled(0)

\* a Paper with an abstract and two sections came back; the first result was
\* empty and the other two differ
EmptyAbstractResultReturned ==
    /\ pc = "translated"
    /\ t_args.paper.abstract # <<>>
    /\ Len(t_paper.sections) = 2
    /\ results[1] = <<>>
    /\ results[2] # <<>>
    /\ results[3] # results[2]

-----------------------------------------------------------------------------
(* translate_paper: the order of the callbacks and the LLM calls *)

\* the events of entries 0 .. n-1 of secs, one after the other: the start
\* callback, one LLM call, the done callback; a callback that was not given
\* leaves no event
RECURSIVE EventsOf(_, _)
EventsOf(secs, n) ==
    IF n = 0 THEN <<>>
    ELSE EventsOf(secs, n - 1)
            \o (IF t_args.on_section_start
                THEN <<StartEvent(n - 1, secs[n].heading)>> ELSE <<>>)
            \o <<CompleteEvent(n - 1, secs[n].heading)>>
            \o (IF t_args.on_section_done
                THEN <<DoneEvent(n - 1, secs[n].heading)>> ELSE <<>>)

IsPrefix(s, t) == Len(s) <= Len(t) /\ s = SubSeq(t, 1, Len(s))

\* C12: the events of translate_paper are at every moment the beginning of
\* start(0), call(0), done(0), start(1), ... over the entries of all_sections()
\* (the Abstract first when there is one), and all of it at the return; at most
\* one LLM call is in flight, and while one is, the last event is its issue
StrictlySequential ==
    LET secs == all_sections(t_args.paper)
    IN  /\ in_flight \in {0, 1}
        /\ in_flight = 1 <=> pc = "t_await"
        /\ IsPrefix(events, EventsOf(secs, Len(secs)))
        /\ pc = "t_loop" => events = EventsOf(secs, ti)
        /\ pc = "t_await" =>
              /\ ti < Len(secs)
              /\ events[Len(events)] = CompleteEvent(ti, secs[ti + 1].heading)
        /\ pc = "translated" => events = EventsOf(secs, Len(secs))

\* an abstract and two sections were translated with both callbacks given
ThreeEntriesWithCallbacks ==
    /\ pc = "translated"
    /\ t_args.on_section_start
    /\ t_args.on_section_done
    /\ t_args.paper.abstract # <<>>
    /\ Len(t_args.paper.sections) = 2
    /\ Len(events) = 9
    /\ events[1] = StartEvent(0, <<"A","b","s","t","r","a","c","t">>)

-----------------------------------------------------------------------------
(* HtmlParser *)

\* the document has an element of the class, or of one of the names
HasClass(tree, cls) == find_all_class(tree, Root, cls) # <<>>
HasHeadingElement(tree) ==
    \E name \in {"h1", "h2", "h3", "h4", "h5", "h6"} : find_all_name(tree, Root, name) # <<>>

\* C13: a document without section wrappers and without heading elements is
\* parsed to one section "Full Paper" whose content is all the text of the
\* document, its strings stripped and joined by newlines, or to no section
\* when the document has no text
FullPaperIsFullText ==
    (pc = "h_parsed" /\ ~HasClass(html, "ltx_section") /\ ~HasHeadingElement(html)) =>
        h_paper[1].sections =
            IF get_text(html, <<"\n">>) # <<>>
            THEN <<Section(<<"F","u","l","l"," ","P","a","p","e","r">>, get_text(html, <<"\n">>))>>
            ELSE <<>>

\* what C14 says of the wrapper at path w of the document: its heading, its
\* content, and whether it gives a section
WrapperTitle(tree, w) == First(find_all_class(tree, w, "ltx_title"))

WrapperHeading(tree, w) ==
    IF WrapperTitle(tree, w) # None
    THEN get_text(NodeAt(tree, WrapperTitle(tree, w)[1]), <<>>)
    ELSE <<"U","n","t","i","t","l","e","d"," ","S","e","c","t","i","o","n">>

WrapperContent(tree, w) ==
    IF WrapperTitle(tree, w) # None
    THEN get_text(NodeAt(decompose(tree, WrapperTitle(tree, w)[1]), w), <<"\n">>)
    ELSE get_text(NodeAt(tree, w), <<"\n">>)

RECURSIVE WrapperSections(_, _)
WrapperSections(tree, ws) ==
    IF ws = <<>> THEN <<>>
    ELSE (IF lower(WrapperHeading(tree, Head(ws))) \in
                { <<"r","e","f","e","r","e","n","c","e","s">>, <<"b","i","b","l","i","o","g","r","a","p","h","y">>, <<"a","c","k","n","o","w","l","e","d","g","e","m","e","n","t","s">>, <<"a","c","k","n","o","w","l","e","d","g","m","e","n","t","s">> }
             \/ WrapperContent(tree, Head(ws)) = <<>>
          THEN <<>>
          ELSE <<Section(WrapperHeading(tree, Head(ws)), WrapperContent(tree, Head(ws)))>>)
            \o WrapperSections(tree, Tail(ws))

\* C14: the sections of a document with section wrappers are, in document
\* order, one for each wrapper that is not skipped: its heading the text of
\* the title element nested in it, or "Untitled Section", its content the rest
\* of its text; a wrapper is skipped for a heading of the skip list and for
\* an empty rest
WrappersGiveSections ==
    (pc = "h_parsed" /\ HasClass(html, "ltx_section")) =>
        h_paper[1].sections =
            WrapperSections(html, find_all_class(html, Root, "ltx_section"))

-----------------------------------------------------------------------------
(* fetch_paper *)

Remote == f_args.source \notin fs

\* the runs of word characters and dots that follow arxiv.org/abs/ or
\* arxiv.org/pdf/ somewhere in the source and cannot be made longer
ArxivIdsIn(source) ==
    {SubSeq(source, ab[1], ab[2]) :
        ab \in {ab \in (15..Len(source)) \X (15..Len(source)) :
                  /\ ab[1] <= ab[2]
                  /\ SubSeq(source, ab[1] - 14, ab[1] - 1)
                        \in { <<"a","r","x","i","v",".","o","r","g","/","a","b","s","/">>, <<"a","r","x","i","v",".","o","r","g","/","p","d","f","/">> }
                  /\ \A k \in ab[1]..ab[2] : source[k] \in WordChars \cup {"."}
                  /\ ab[2] < Len(source) => source[ab[2] + 1] \notin WordChars \cup {"."}}}

IsArxivUrl(source) == ArxivIdsIn(source) # {}

\* the response is one the HTML rendering is taken from
Qualifies(resp) ==
    /\ ~resp.error
    /\ resp.status_code = 200
    /\ resp.content_type # None
    /\ Contains(resp.content_type[1], <<"t","e","x","t","/","h","t","m","l">>)

\* C15: for an arXiv URL with HTML preferred the first GET is of the HTML
\* rendering of an identifier in the URL; a response of status 200 and an HTML
\* content type is parsed by HtmlParser and there is no second GET; after any
\* other response or a transport failure nothing is raised and one GET of the
\* PDF of the same identifier follows; a non-2xx status of that one is raised
\* and there is no third GET
ArxivHtmlThenPdfOnce ==
    (Remote /\ IsArxivUrl(f_args.source) /\ f_args.prefer_html /\ pc # "f_call") =>
        /\ \E id \in ArxivIdsIn(f_args.source) :
              /\ requests[1] = <<"h","t","t","p","s",":","/","/","a","r","x","i","v",".","o","r","g","/","h","t","m","l","/">> \o id
              /\ Len(requests) > 1 => requests[2] = <<"h","t","t","p","s",":","/","/","a","r","x","i","v",".","o","r","g","/","p","d","f","/">> \o id
        /\ Len(requests) <= 2
        /\ Len(responses) <= Len(requests)
        /\ (Len(responses) >= 1 /\ Qualifies(responses[1])) =>
              /\ Len(requests) = 1
              /\ parser_calls = << <<"HtmlParser", "parse_string">> >>
              /\ f_paper # None
              /\ raised = None
        /\ (Len(responses) >= 1 /\ ~Qualifies(responses[1])) =>
              /\ Len(requests) = 2
              /\ Len(responses) = 1 => raised = None /\ f_paper = None
        /\ (Len(responses) = 2 /\ ~responses[2].error
                /\ responses[2].status_code \notin 200..299) =>
              /\ raised = Some("HTTPStatusError")
              /\ f_paper = None
              /\ parser_calls = <<>>
        /\ (Len(responses) = 2 /\ ~responses[2].error
                /\ responses[2].status_code \in 200..299) =>
              /\ raised = None
              /\ parser_calls = << <<"PdfParser", "parse_bytes">> >>

\* the HTML rendering of an arXiv paper answered 500 as text/html, and the PDF
\* that was fetched next answered 404
HtmlFailedThenPdfFailed ==
    /\ Remote
    /\ f_args.source = <<"h","t","t","p","s",":","/","/","a","r","x","i","v",".","o","r","g","/","a","b","s","/","2","3","0","1",".","1","2","3","4","5","v","2">>
    /\ f_args.prefer_html
    /\ requests = << <<"h","t","t","p","s",":","/","/","a","r","x","i","v",".","o","r","g","/","h","t","m","l","/","2","3","0","1",".","1","2","3","4","5","v","2">>,
                     <<"h","t","t","p","s",":","/","/","a","r","x","i","v",".","o","r","g","/","p","d","f","/","2","3","0","1",".","1","2","3","4","5","v","2">> >>
    /\ responses = << Response(500, Some(<<"t","e","x","t","/","h","t","m","l",";"," ","c","h","a","r","s","e","t","=","u","t","f","-","8">>)),
                      Response(404, Some(<<"t","e","x","t","/","h","t","m","l",";"," ","c","h","a","r","s","e","t","=","u","t","f","-","8">>)) >>
    /\ raised = Some("HTTPStatusError")

\* C16: for a URL that is no arXiv URL there is one GET, of the URL itself; a
\* non-2xx status is raised; otherwise a content type with "pdf" in it goes to
\* PdfParser and any other, or none, to HtmlParser
NonArxivSingleGet ==
    (Remote /\ ~IsArxivUrl(f_args.source) /\ pc # "f_call") =>
        /\ requests = <<f_args.source>>
        /\ Len(responses) <= 1
        /\ \A k \in DOMAIN responses :
              LET resp == responses[k]
              IN  IF resp.error THEN raised # None /\ f_paper = None
                  ELSE IF resp.status_code \notin 200..299
                  THEN /\ raised = Some("HTTPStatusError")
                       /\ f_paper = None
                       /\ parser_calls = <<>>
                  ELSE /\ raised = None
                       /\ f_paper # None
                       /\ parser_calls =
                            IF resp.content_type # None
                                    /\ Contains(resp.content_type[1], <<"p","d","f">>)
                            THEN << <<"PdfParser", "parse_bytes">> >>
                            ELSE << <<"HtmlParser", "parse_string">> >>

\* a URL that is no arXiv URL answered 200 without a content type, and
\* HtmlParser got the body
NoContentTypeGoesToHtml ==
    /\ Remote
    /\ f_args.source = <<"h","t","t","p","s",":","/","/","e","x","a","m","p","l","e",".","o","r","g","/","p","a","p","e","r",".","p","d","f">>
    /\ responses = <<Response(200, None)>>
    /\ parser_calls = << <<"HtmlParser", "parse_string">> >>
    /\ pc = "fetched"

\* C17: a Paper fetched from a remote source has the source string itself as
\* its source_url
SourceUrlIsInput ==
    (pc = "fetched" /\ Remote) => f_paper[1].source_url = Some(f_args.source)

\* a Paper came from the PDF fallback of an arXiv URL, whose two requests were
\* of other URLs than the source
FetchedByPdfFallback ==
    /\ pc = "fetched"
    /\ Remote
    /\ Len(requests) = 2
    /\ requests[1] # f_args.source
    /\ requests[2] # f_args.source
    /\ f_paper[1].source_format = "pdf"

\* the name of the file ends with ext, whatever the case, after at least one
\* more character
HasExtension(source, ext) ==
    LET name == PathName(source)
    IN  /\ Len(name) > Len(ext)
        /\ lower(SubSeq(name, Len(name) - Len(ext) + 1, Len(name))) = ext

\* C18: for a source that is an existing file there is no request; a .pdf
\* file goes to PdfParser, a .html or .htm file to HtmlParser, whatever the
\* case of the extension, and for any other file ValueError is raised and
\* there is no Paper
LocalFileDispatch ==
    ~Remote =>
        /\ requests = <<>>
        /\ responses = <<>>
        /\ pc # "f_call" =>
              IF HasExtension(f_args.source, <<".","p","d","f">>)
              THEN /\ parser_calls = << <<"PdfParser", "parse">> >>
                   /\ f_paper # None /\ raised = None
              ELSE IF HasExtension(f_args.source, <<".","h","t","m","l">>)
                        \/ HasExtension(f_args.source, <<".","h","t","m">>)
              THEN /\ parser_calls = << <<"HtmlParser", "parse">> >>
                   /\ f_paper # None /\ raised = None
              ELSE /\ parser_calls = <<>>
                   /\ f_paper = None
                   /\ raised = Some("ValueError")

\* the file notes/Paper.PDF was parsed by PdfParser
UpperCasePdfParsed ==
    /\ ~Remote
    /\ f_args.source = <<"n","o","t","e","s","/","P","a","p","e","r",".","P","D","F">>
    /\ parser_calls = << <<"PdfParser", "parse">> >>
    /\ pc = "fetched"

-----------------------------------------------------------------------------
(* the translate command and the /translate endpoint: the tone *)

\* C19: with a tone outside 1..5 the command and the endpoint end with an
\* exception and attempt no document fetch and no LLM call; every LLM call
\* that is made has, after the base instructions, the block of the tone given,
\* and the five tones have five blocks
InvalidToneRejectedFirst ==
    /\ (e_args.tone \notin 1..5 /\ pc \notin {"cli_call", "web_call"}) =>
          /\ pc = "e_raised"
          /\ raised # None
          /\ net_calls = <<>>
          /\ sse = <<>>
    /\ net_calls # <<>> => e_args.tone \in 1..5
    /\ \A k \in DOMAIN net_calls :
          net_calls[k].kind = "llm" =>
              /\ Len(net_calls[k].system) = 3
              /\ net_calls[k].system[3] = _TONE_INSTRUCTIONS[e_args.tone]
    /\ \A a, b \in 1..5 : a # b => _TONE_INSTRUCTIONS[a] # _TONE_INSTRUCTIONS[b]

\* the endpoint was given tone 6 and a URL, with the provider configured, and
\* ended with ValueError
WebToneSixRejected ==
    /\ e_args.entry = "web"
    /\ e_args.tone = 6
    /\ e_args.source # <<>>
    /\ check_provider_configured(_PROVIDER, environ) = None
    /\ raised = Some("ValueError")
    /\ net_calls = <<>>

-----------------------------------------------------------------------------
(* get_provider: the configuration check *)

\* the provider translate_paper asks get_provider for
AskedProvider == ProviderName(t_args.provider_name)

\* the asked provider is registered, needs a key, and the key's variable is
\* not in the environment
KeyUnset ==
    /\ AskedProvider \in DOMAIN PROVIDER_INFO
    /\ PROVIDER_INFO[AskedProvider].api_key_env # None
    /\ PROVIDER_INFO[AskedProvider].api_key_env[1] \notin DOMAIN environ

\* C20: no factory is invoked, no provider made, no callback fired and no LLM
\* call issued unless the asked provider is registered and its key, if it needs
\* one, is in the environment; with the key unset get_provider raises
\* ProviderNotConfiguredError, with an unknown name the unknown-provider
\* error, and ollama never fails the check
ConfigurationCheckedFirst ==
    /\ (factories # <<>> \/ llm # None \/ events # <<>> \/ in_flight > 0) =>
          /\ AskedProvider \in DOMAIN PROVIDER_INFO
          /\ ~KeyUnset
    /\ events # <<>> => llm # None /\ factories = <<AskedProvider>>
    /\ (KeyUnset /\ pc # "t_call") =>
          /\ raised = Some("ProviderNotConfiguredError")
          /\ pc = "t_raised"
    /\ (AskedProvider \notin DOMAIN PROVIDER_INFO /\ pc # "t_call") =>
          /\ raised = Some("ValueError")
          /\ pc = "t_raised"
    /\ AskedProvider = "ollama" =>
          /\ raised \notin {Some("ProviderNotConfiguredError"), Some("ValueError")}
          /\ pc \notin {"t_call", "t_factory"} => factories = <<"ollama">>

\* claude was asked for with ANTHROPIC_API_KEY unset, and get_provider raised
ClaudeNotConfigured ==
    /\ AskedProvider = "claude"
    /\ KeyUnset
    /\ raised = Some("ProviderNotConfiguredError")
    /\ factories = <<>>

-----------------------------------------------------------------------------
(* the /translate endpoint: errors *)

\* the request to /translate has ended with an error: an exception left the
\* handler, or the stream ended with an error event
WebEndedInError ==
    /\ e_args.entry = "web"
    /\ \/ pc = "e_raised"
       \/ pc = "e_done" /\ sse # <<>> /\ sse[Len(sse)][1] = "error"

\* C21: every error of a request to /translate (no input, provider not
\* configured, invalid tone, fetch failure, LLM failure in the stream) ends
\* the response with one error event, the last of the stream, and no exception
\* leaves the handler
WebErrorsAreEvents ==
    WebEndedInError =>
        /\ raised = None
        /\ pc = "e_done"
        /\ Len(SelectSeq(sse, LAMBDA ev : ev[1] = "error")) = 1
        /\ sse[Len(sse)][1] = "error"

-----------------------------------------------------------------------------
(* the life of a Paper: constructed, fetched, translated *)

\* the Paper as the Structurer constructed it, for the Paper fetch_paper
\* returned
Constructed == Parsed(f_paper[1].source_format)

\* p and q differ at most in abstract and in the translated fields of their
\* sections
SameButTranslation(p, q) ==
    /\ p.title = q.title
    /\ p.authors = q.authors
    /\ p.source_url = q.source_url
    /\ p.source_format = q.source_format
    /\ Len(p.sections) = Len(q.sections)
    /\ \A k \in DOMAIN p.sections :
          /\ p.sections[k].heading = q.sections[k].heading
          /\ p.sections[k].content = q.sections[k].content

\* translate_paper has been called with the Paper that was fetched
InTranslatePaper == pc \in {"t_call", "t_factory", "t_loop", "t_await", "t_raised",
                            "translated", "run_done"}

\* the Paper fetch_paper returned is the Paper the Structurer constructed,
\* and of the Paper given to translate_paper only abstract and the translated
\* fields have changed
OnlyTranslationMutates ==
    /\ f_paper # None => f_paper[1] = Constructed
    /\ InTranslatePaper => SameButTranslation(t_paper, Constructed)

\* C22: after a Structurer constructed a Paper, fetch_paper sets source_url
\* for a remote source and nothing else; then translate_paper leaves title,
\* authors, source_url, source_format and every Section's heading and content
\* as they are, and the Sections in their places
OnlyFetchAndTranslationMutate ==
    /\ f_paper # None =>
          f_paper[1] = [Constructed EXCEPT !.source_url =
                            IF f_args.source \in fs THEN None ELSE Some(f_args.source)]
    /\ InTranslatePaper =>
          /\ SameButTranslation(t_paper, f_paper[1])
          /\ SameButTranslation(t_paper, t_args.paper)
    /\ pc = "run_done" => f_paper[1] = t_args.paper

\* a Paper with an abstract and two sections was fetched from a URL and
\* translated
FetchedPaperTranslated ==
    /\ pc = "translated"
    /\ f_paper[1].source_url # None
    /\ f_paper[1].abstract # <<>>
    /\ Len(f_paper[1].sections) = 2
    /\ t_paper.abstract # f_paper[1].abstract
    /\ \A k \in 1..2 : t_paper.sections[k].translated # None

-----------------------------------------------------------------------------
(* the translate command: the markdown *)

\* where the blocks of the sections begin in lines: after the title line and
\* the two lines of the abstract block, if there is one
BlocksAfter == IF t_paper.abstract # <<>> THEN 3 ELSE 1

\* the lines are the title line, the abstract block if and only if the
\* abstract is not empty, and one block per section in order, whose heading
\* line is "## " and the heading, and whose body is body(section)
MarkdownWith(body(_)) ==
    /\ Len(out_lines) = BlocksAfter + 2 * Len(t_paper.sections)
    /\ out_lines[1] = <<"#"," ">> \o t_paper.title \o <<"\n">>
    /\ t_paper.abstract # <<>> =>
          /\ out_lines[2] = <<"#","#"," ","A","b","s","t","r","a","c","t","\n">>
          /\ out_lines[3] = t_paper.abstract \o <<"\n">>
    /\ \A k \in DOMAIN t_paper.sections :
          /\ out_lines[BlocksAfter + 2 * k - 1] = <<"#","#"," ">> \o t_paper.sections[k].heading \o <<"\n">>
          /\ out_lines[BlocksAfter + 2 * k] = body(t_paper.sections[k]) \o <<"\n">>
    /\ result = Some(str_join(<<"\n">>, out_lines))

\* the translated text if there is one, else the content
TranslatedIfPresent(section) ==
    IF section.translated # None THEN section.translated[1] ELSE section.content

\* the translated text if there is one and it is not empty, else the content
TranslatedIfNotEmpty(section) ==
    IF section.translated # None /\ section.translated[1] # <<>>
    THEN section.translated[1] ELSE section.content

\* the markdown, with for each section its translated text if present
MarkdownOfTranslated == pc = "run_done" => MarkdownWith(TranslatedIfPresent)

\* C23: the markdown the command builds is a "# <title>" line, a
\* "## Abstract" block if and only if Paper.abstract is not empty, and one
\* "## <heading>" block per Section of Paper.sections in order, with the
\* Section's translated text if it is present and not empty, else its content
MarkdownOfNonEmptyTranslated == pc = "run_done" => MarkdownWith(TranslatedIfNotEmpty)

\* the markdown of a paper with an abstract and two sections, the first of
\* which was translated to the empty string and the second to a text, and
\* that has no block between the title and the first section but the abstract
MarkdownWithEmptyTranslation ==
    /\ pc = "run_done"
    /\ t_paper.abstract # <<>>
    /\ Len(t_paper.sections) = 2
    /\ t_paper.sections[1].translated = Some(<<>>)
    /\ t_paper.sections[2].translated = Some(<<"i","t"," ","s","l","a","p","s">>)
    /\ Len(out_lines) = 7
    /\ out_lines[5] = t_paper.sections[1].content \o <<"\n">>

-----------------------------------------------------------------------------
(* the PDF structurer: the lines before the first heading *)

\* the heading lines among the first n lines
HeadingLines(n) == {j \in 1..n : j <= Len(lines) /\ _is_heading(lines[j])}

\* during the scan: nothing is kept before the first heading line, and after
\* it the open section is that of the last heading line passed, with every
\* line passed since then, in order; when the first line that is not blank is
\* a heading line, it is the first heading line
ScanAccumulates ==
    pc = "scan" =>
        LET seen == HeadingLines(li - 1)
            nonblank == {k \in DOMAIN lines : ~IsBlank(lines[k])}
        IN  /\ in_body <=> seen # {}
            /\ seen = {} =>
                  /\ current_heading = None
                  /\ current_lines = <<>>
                  /\ sections = <<>>
                  /\ abstract = <<>>
            /\ seen # {} =>
                  /\ current_heading = Some(_clean_heading(lines[Max(seen)]))
                  /\ current_lines = SubSeq(lines, Max(seen) + 1, li - 1)
                  /\ Min(nonblank) \in seen => Min(seen) = Min(nonblank)

\* the body under the heading line i, for the heading lines H
BodyOf(H, i) ==
    LET later == {j \in H : j > i}
    IN  strip(join(SubSeq(lines, i + 1, IF later = {} THEN Len(lines) ELSE Min(later) - 1)))

\* every Section of the Paper is the Section of a heading line, with the lines
\* under it, and so is the abstract, if there is one
EverySectionUnderAHeading(H) ==
    /\ \A k \in DOMAIN paper.sections :
          \E i \in H : paper.sections[k] = Section(_clean_heading(lines[i]), BodyOf(H, i))
    /\ paper.abstract # <<>> => \E i \in H : paper.abstract = BodyOf(H, i)

\* the scan closes no Section and no abstract text: every heading line is an
\* "abstract" one, and the last has nothing under it
ScanGivesNothing(H) ==
    /\ \A i \in H : lower(_clean_heading(lines[i])) = <<"a","b","s","t","r","a","c","t">>
    /\ BodyOf(H, Max(H)) = <<>>

\* the content is made of lines from the first heading line on: it is a run
\* of them, joined with newlines and trimmed
FromFirstHeadingOn(H, content) ==
    \E a \in Min(H)..(Len(lines) + 1), b \in Min(H)..Len(lines) :
        content = strip(join(SubSeq(lines, a, b)))

\* no line before the first heading line is in a Section or in the abstract of
\* the Paper; from the first heading line on, every other line is kept in the
\* body of the last heading line before it; a heading line in the title block
\* opens the first section
LinesBeforeFirstHeadingDiscarded ==
    /\ ScanAccumulates
    /\ Structured =>
          LET H == HeadingLines(Len(lines))
          IN  H # {} =>
                  /\ \A k \in DOMAIN paper.sections :
                        FromFirstHeadingOn(H, paper.sections[k].content)
                  /\ FromFirstHeadingOn(H, paper.abstract)

\* C24: the scan keeps no line before the first heading line; from the first
\* heading line on, every other line is kept in the body of the last heading
\* line before it; a heading line in the title block opens the first section;
\* and the Paper has the lines before the first heading in none of its
\* Sections, unless the scan gave no Section and no abstract text, when its
\* one Section "Full Paper" holds the whole text, those lines included
LinesBeforeFirstHeadingOnlyInFullPaper ==
    /\ ScanAccumulates
    /\ Structured =>
          LET H == HeadingLines(Len(lines))
          IN  H # {} =>
                  IF ScanGivesNothing(H)
                  THEN paper.sections = <<Section(<<"F","u","l","l"," ","P","a","p","e","r">>, strip(text))>>
                  ELSE EverySectionUnderAHeading(H)

\* the text is a title line and an Abstract heading with nothing under it:
\* the one Section holds the title line
TitleLineInFullPaper ==
    /\ pc = "parsed"
    /\ lines = << <<"T","i","t","l","e">>, <<"A","b","s","t","r","a","c","t">> >>
    /\ paper.sections = <<Section(<<"F","u","l","l"," ","P","a","p","e","r">>, <<"T","i","t","l","e","\n","A","b","s","t","r","a","c","t">>)>>

-----------------------------------------------------------------------------
(* HtmlParser: which of the two ways of finding sections is taken *)

\* C25: the generic walk runs only for a document without section wrappers;
\* for a document with one, the sections are those of the wrappers only, with
\* no generic walk and no "Full Paper" section, also when every wrapper is
\* skipped or empty and the Paper has no section
GenericOnlyWithoutWrappers ==
    /\ HasClass(html, "ltx_section") =>
          /\ pc # "h_generic"
          /\ h_heading = None
          /\ h_parts = <<>>
          /\ pc = "h_parsed" =>
                /\ Len(h_paper[1].sections) <= Len(find_all_class(html, Root, "ltx_section"))
                /\ \A k \in DOMAIN h_paper[1].sections :
                      h_paper[1].sections[k].heading # <<"F","u","l","l"," ","P","a","p","e","r">>
    /\ ~HasClass(html, "ltx_section") => pc # "h_ltx"

-----------------------------------------------------------------------------
(* HtmlParser: where the headings come from *)

\* the texts of the title elements of the document
TitleTexts ==
    LET titles == find_all_class(html, Root, "ltx_title")
    IN  {get_text(NodeAt(html, titles[k]), <<>>) : k \in DOMAIN titles}

\* the texts of the children of the body that the heading classifier of the
\* PDF structurer takes for headings, normalised
ClassifiedHeadings ==
    LET kids == NodeAt(soup, Body(soup)).kids
    IN  {_clean_heading(get_text(kids[k], <<>>)) :
            k \in {k \in DOMAIN kids : IsTag(kids[k]) /\ _is_heading(get_text(kids[k], <<>>))}}

\* C26: with section wrappers the headings are the texts of the title
\* elements as they stand, with no numeral stripped; without, the headings are
\* those _is_heading accepts, as _clean_heading normalises them
GenericPathUsesHeadingClassifier ==
    pc = "h_parsed" =>
        \A k \in DOMAIN h_paper[1].sections :
            LET heading == h_paper[1].sections[k].heading
            IN  IF ltx_sections # <<>>
                THEN heading \in TitleTexts \cup { <<"U","n","t","i","t","l","e","d"," ","S","e","c","t","i","o","n">> }
                ELSE heading \in ClassifiedHeadings \cup { <<"F","u","l","l"," ","P","a","p","e","r">> }

-----------------------------------------------------------------------------
(* the /translate endpoint: the order of the events *)

\* the event b may follow the event a in the stream of a paper of n entries
MayFollow(a, b, n) ==
    CASE a[1] = "meta" ->
            IF n = 0 THEN b = SseEvent("done", 0) ELSE b = SseEvent("section_start", 0)
      [] a[1] \in {"section_start", "chunk"} ->
            b \in {SseEvent("chunk", a[2]), SseEvent("section_done", a[2]),
                   SseEvent("error", 0)}
      [] a[1] = "section_done" ->
            IF a[2] + 1 = n THEN b = SseEvent("done", 0)
            ELSE b = SseEvent("section_start", a[2] + 1)
      [] OTHER -> FALSE

\* the paper was parsed and the stream of its events has begun
Streaming == e_args.entry = "web" /\ sse # <<>> /\ sse[1][1] = "meta"

\* the events yielded so far are in order: the meta event with the number of
\* entries, then for each entry in turn its section_start, its chunks and its
\* section_done, and last one done or one error event
EventsInOrder ==
    Streaming =>
        /\ sse[1] = SseEvent("meta", e_n)
        /\ \A k \in 2..Len(sse) : MayFollow(sse[k - 1], sse[k], e_n)
        /\ pc = "e_done" <=> sse[Len(sse)][1] \in {"done", "error"}
        /\ sse[Len(sse)][1] = "done" =>
              Len(SelectSeq(sse, LAMBDA ev : ev[1] = "section_done")) = e_n
        /\ Len(SelectSeq(net_calls, LAMBDA c : c.kind = "llm"))
              <= Len(SelectSeq(sse, LAMBDA ev : ev[1] = "section_start"))

\* C27: once the paper is parsed the events are one meta event with
\* len(all_sections()), then for each section in order section_start, chunks
\* and section_done, and one terminal event, done after the last section or
\* error at the first failure, with nothing after it; and when the client
\* disconnects no event is yielded and no LLM call made from then on
EventStreamOrdered ==
    /\ [] EventsInOrder
    /\ [][(pc' = "e_closed" \/ pc \in {"e_closed", "e_done"})
              => (sse' = sse /\ net_calls' = net_calls)]_vars

\* the client went away between the chunks of the second section of a paper
DisconnectedMidStream ==
    /\ pc = "e_closed"
    /\ e_n = 2
    /\ sse[Len(sse)] = SseEvent("chunk", 1)

-----------------------------------------------------------------------------
(* translate_paper: an LLM call fails *)

\* the LLM call of entry ti (from 0) of all_sections has failed
LlmCallFailed == pc = "t_raised" /\ raised = Some("LLMError")

\* 1 when all_sections begins with the Abstract section, else 0
AbstractOffset == IF t_args.paper.abstract # <<>> THEN 1 ELSE 0

\* C28: when the LLM call of entry k fails the exception leaves
\* translate_paper; on_section_done(k) and the callbacks of the entries after
\* k are not fired; Paper.abstract is the original, Paper.sections has the
\* Sections it had, and those among them that come before entry k keep the
\* translated text they were given, the others having none
FailureLeavesPartialTranslation ==
    LlmCallFailed =>
        /\ in_flight = 0
        /\ \A e \in DOMAIN events :
              /\ events[e][2] <= ti
              /\ events[e] # DoneEvent(ti, all_secs[ti + 1].heading)
        /\ t_paper.abstract = t_args.paper.abstract
        /\ Len(t_paper.sections) = Len(t_args.paper.sections)
        /\ \A j \in DOMAIN t_paper.sections :
              t_paper.sections[j] =
                  [t_args.paper.sections[j] EXCEPT !.translated =
                      IF j + AbstractOffset <= ti THEN Some(results[j + AbstractOffset])
                      ELSE None]

\* of a paper with an abstract and two sections the abstract and the first
\* section were translated and the call for the second section failed
SecondSectionFailed ==
    /\ LlmCallFailed
    /\ ti = 2
    /\ t_args.paper.abstract # <<>>
    /\ t_paper.sections[1].translated = Some(<<"i","t"," ","s","l","a","p","s">>)
    /\ t_paper.sections[2].translated = None

-----------------------------------------------------------------------------
(* HtmlParser: the generic walk closes no section *)

\* the children of the body that are heading elements
HeadingChildren ==
    LET kids == NodeAt(html, Body(html)).kids
    IN  {k \in DOMAIN kids : IsTag(kids[k]) /\ kids[k].name \in _HEADING_TAGS}

\* C29: on the generic path, when there are heading elements and every
\* pending section is dropped, the Paper has one Section, "Full Paper", whose
\* content is all the text of the document, the text under the skip-listed
\* headings included
DroppedSectionsGiveFullPaper ==
    (pc = "h_parsed" /\ ltx_sections = <<>> /\ HeadingChildren # {}
        /\ \A k \in DOMAIN h_sections : h_sections[k].heading = <<"F","u","l","l"," ","P","a","p","e","r">>) =>
        h_paper[1].sections = <<Section(<<"F","u","l","l"," ","P","a","p","e","r">>, get_text(html, <<"\n">>))>>

-----------------------------------------------------------------------------
(* fetch_paper without the preference for HTML *)

=============================================================================
